---- MODULE Spec2Model ----
(***************************************************************************)
(* Model of the auto-scheduler data-preparation scripts:                   *)
(*   - group_identical_rows.py / group_identical_parquet_rows.py           *)
(*     (the row canonicalizer / counter),                                  *)
(*   - combine_all_data.py (filename metadata, record flattener,           *)
(*     per-file processing and the combining loop),                        *)
(*   - analyze_autoscheduler_outputs.py / streamlit_scheduler_explorer.py  *)
(*     (the functions over packed times),                                  *)
(*   - download_from_s3.py / download_parquet_from_s3.py                   *)
(*     (download_repository, decompress_and_extract_metadata),             *)
(*   - decompress_files.py (decompress_file, decompress_all_files),        *)
(*   - combine_all_parquet_data.py (extract_metadata_from_filename),       *)
(*   - streamlit_scheduler_explorer.py / create_scheduling_gantt.py        *)
(*     (create_gantt_chart_data, the intensity matrix),                    *)
(*   - launch_app.py / launch_parquet_dashboard.py (main) with load_data   *)
(*     of the dashboard.                                                   *)
(* Each script is a sequential program; every script has its own           *)
(* specification (SpecGroup, SpecFlat, SpecFile, SpecCombine, SpecTime,    *)
(* SpecDownload, SpecDecompress, SpecParquetName, SpecGantt, SpecLaunch)   *)
(* over its own variables, the variables of the other scripts staying      *)
(* idle.                                                                   *)
(***************************************************************************)
EXTENDS Integers, Sequences, FiniteSets, TLC

VARIABLES
    \* ---- group_identical_rows ----
    g_pc,          \* position in group_identical_rows
    script,        \* "csv" (group_identical_rows.py) or "parquet" (group_identical_parquet_rows.py)
    input_exists,  \* os.path.exists(input_csv)
    input_rows,    \* the data rows of input_csv, as read with dtype=str
    chunksize,     \* the chunksize argument
    pos,           \* number of data rows the chunked reader has delivered
    chunk,         \* the chunk being iterated
    idx,           \* number of rows of chunk already tallied
    row_counter,   \* the Counter, as its items in insertion order
    output_csv,    \* the rows written to output_csv (<<>> before the write)
    \* ---- flatten_record ----
    f_pc,                       \* position in flatten_record
    record,                     \* the record argument
    collection_frequency,       \* the collection_frequency argument
    hourly_collection_plan_id,  \* the hourly_collection_plan_id argument
    base_flattened,             \* the dict of parent columns
    owner_idx,                  \* enumerate index of the owner loop
    result_rows,                \* the list of rows built so far
    \* ---- process_json_file ----
    p_pc,                    \* position in process_json_file
    json_file_path,          \* the path argument, as its characters
    file_content,            \* what open() + json.load give for the path
    file_frequency,          \* collection_frequency parsed from the filename
    file_plan_id,            \* hourly_collection_plan_id parsed from the filename
    warned,                  \* the "Could not extract metadata" warning was printed
    rec_i,                   \* number of records of data flattened so far
    csv_records,             \* the rows collected so far
    original_record_count,   \* len(data)
    returned,                \* the pair process_json_file returns
    \* ---- combine_all_data ----
    c_pc,          \* position in combine_all_data
    json_dir,      \* the files of the directory: path characters and content
    json_files,    \* sorted(glob("*.json"))
    file_i,        \* number of files processed so far
    all_records,   \* the rows collected so far
    file_stats,    \* per collection_frequency: files, original_records, flattened_rows
    processed,     \* what process_json_file returned for each file so far
    output_file,   \* the rows written to output_file (none before the write)
    \* ---- time functions of the analysis scripts ----
    t_pc,    \* position of the call
    t_fn,    \* the function called
    time_value,    \* the argument of a one-argument function
    start_time,    \* first argument of calc_duration_minutes
    end_time,    \* second argument of calc_duration_minutes
    t_result,   \* the value returned
    \* ---- download_repository ----
    d_pc,    \* position in download_repository
    d_script,    \* "json" (download_from_s3.py) or "parquet" (download_parquet_from_s3.py)
    listing,    \* the keys the paginator lists under the prefix, in listing order
    obj_i,    \* number of listed objects gone through
    local_files,    \* the regular files under local_root
    local_dirs,    \* the directories under local_root, local_root included
    transfers,    \* per listed object, the outcomes of the s3.download_file calls made for it
    downloaded,   \* the list downloaded
    \* ---- decompress_all_files / decompress_and_extract_metadata ----
    z_pc,    \* position in the decompressing loop
    z_script,    \* "decompress_files" (decompress_all_files) or "download_from_s3" (decompress_and_extract_metadata)
    source_dir,    \* the directory holding the compressed files, as its characters
    gz_dir,    \* the files of source_dir: path characters and content
    z_dirs,    \* the directories that exist
    gz_files,    \* the list of paths the loop goes through
    gz_i,    \* number of paths gone through
    z_files,    \* the files written: path and text
    decompressed_files,   \* the list decompressed_files, as the JSON paths
    \* ---- combine_all_parquet_data.py: extract_metadata_from_filename ----
    n_pc,    \* "idle", "call" or "returned"
    parquet_filename,    \* the argument filename, a sequence of characters
    n_result,   \* the pair returned
    \* ---- create_gantt_chart_data ----
    k_pc,    \* position in create_gantt_chart_data
    df_filtered,    \* the rows of the frame: line, start and end packed time, row_count
    gantt_idx,    \* number of rows the fill loop has gone through
    intensity_matrix,   \* line -> hour 0..23 -> intensity
    \* ---- launch_app.py / launch_parquet_dashboard.py: main ----
    l_pc,    \* position in main
    launcher,    \* "launch_app" or "launch_parquet_dashboard"
    json_exists,    \* os.path.exists('combined_all_data_grouped.csv')
    parquet_exists,    \* os.path.exists('combined_all_parquet_data_grouped.csv')
    importable,    \* streamlit, pandas and plotly can be imported
    pip_succeeds,    \* pip install -r requirements.txt exits with 0
    run_raises,    \* subprocess.run of streamlit raises (other than KeyboardInterrupt)
    calls,    \* the functions main has called, in order
    dashboard    \* "not_started", "running", "loaded" or "stopped"

gvars == <<g_pc, script, input_exists, input_rows, chunksize, pos, chunk, idx,
           row_counter, output_csv>>

fvars == <<f_pc, record, collection_frequency, hourly_collection_plan_id,
           base_flattened, owner_idx, result_rows>>

pvars == <<p_pc, json_file_path, file_content, file_frequency, file_plan_id,
           warned, rec_i, csv_records, original_record_count, returned>>

cvars == <<c_pc, json_dir, json_files, file_i, all_records, file_stats,
           processed, output_file>>

tvars == <<t_pc, t_fn, time_value, start_time, end_time, t_result>>

dvars == <<d_pc, d_script, listing, obj_i, local_files, local_dirs, transfers, downloaded>>

zvars == <<z_pc, z_script, source_dir, gz_dir, z_dirs, gz_files, gz_i, z_files, decompressed_files>>

nvars == <<n_pc, parquet_filename, n_result>>

kvars == <<k_pc, df_filtered, gantt_idx, intensity_matrix>>

lvars == <<l_pc, launcher, json_exists, parquet_exists, importable, pip_succeeds,
          run_raises, calls, dashboard>>

vars == <<gvars, fvars, pvars, cvars, tvars, dvars, zvars, nvars, kvars, lvars>>

\* The variables a script leaves alone: those of the other scripts.
notGroup == <<fvars, pvars, cvars, tvars, dvars, zvars, nvars, kvars, lvars>>

notFlat == <<gvars, pvars, cvars, tvars, dvars, zvars, nvars, kvars, lvars>>

notFile == <<gvars, fvars, cvars, tvars, dvars, zvars, nvars, kvars, lvars>>

notCombine == <<gvars, fvars, pvars, tvars, dvars, zvars, nvars, kvars, lvars>>

notTime == <<gvars, fvars, pvars, cvars, dvars, zvars, nvars, kvars, lvars>>

notDownload == <<gvars, fvars, pvars, cvars, tvars, zvars, nvars, kvars, lvars>>

notDecompress == <<gvars, fvars, pvars, cvars, tvars, dvars, nvars, kvars, lvars>>

notParquetName == <<gvars, fvars, pvars, cvars, tvars, dvars, zvars, kvars, lvars>>

notGantt == <<gvars, fvars, pvars, cvars, tvars, dvars, zvars, nvars, lvars>>

notLaunch == <<gvars, fvars, pvars, cvars, tvars, dvars, zvars, nvars, kvars>>

\* ------------------------------------------------------------------------
\* Bounds
\* ------------------------------------------------------------------------
MaxRows == 4
MaxChunk == 3
MaxOwners == 2
MaxStem == 4
MaxRecords == 2
MaxFiles == 2
MaxHours == 25
MaxObjects == 3
MaxGzFiles == 2

\* ------------------------------------------------------------------------
\* Generic helpers
\* ------------------------------------------------------------------------
Min(a, b) == IF a <= b THEN a ELSE b

Max(a, b) == IF a >= b THEN a ELSE b

Range(s) == {s[i] : i \in 1..Len(s)}

RECURSIVE SumCounts(_)
SumCounts(items) ==
    IF items = <<>> THEN 0 ELSE items[1].count + SumCounts(Tail(items))

\* ------------------------------------------------------------------------
\* JSON values as json.load gives them: null, numbers, strings, objects
\* (dicts, insertion ordered: a sequence of <<key, value>> pairs) and
\* arrays (lists).
\* ------------------------------------------------------------------------
Null == [null |-> TRUE]

I(n) == [int |-> n]

S(s) == [str |-> s]

D(pairs) == [dict |-> pairs]

L(xs) == [list |-> xs]

IsNull(v) == DOMAIN v = {"null"}

IsInt(v) == DOMAIN v = {"int"}

IsStr(v) == DOMAIN v = {"str"}

IsDict(v) == DOMAIN v = {"dict"}

IsList(v) == DOMAIN v = {"list"}

\* ------------------------------------------------------------------------
\* The state of a script that is not running
\* ------------------------------------------------------------------------
GroupIdle ==
    /\ g_pc = "idle"
    /\ script = "csv"
    /\ input_exists = FALSE
    /\ input_rows = <<>>
    /\ chunksize = 1
    /\ pos = 0
    /\ chunk = <<>>
    /\ idx = 0
    /\ row_counter = <<>>
    /\ output_csv = <<>>

FlatIdle ==
    /\ f_pc = "idle"
    /\ record = Null
    /\ collection_frequency = Null
    /\ hourly_collection_plan_id = Null
    /\ base_flattened = <<>>
    /\ owner_idx = 0
    /\ result_rows = <<>>

FileIdle ==
    /\ p_pc = "idle"
    /\ json_file_path = <<>>
    /\ file_content = [readable |-> FALSE, data |-> Null]
    /\ file_frequency = Null
    /\ file_plan_id = Null
    /\ warned = FALSE
    /\ rec_i = 0
    /\ csv_records = <<>>
    /\ original_record_count = 0
    /\ returned = [rows |-> <<>>, count |-> 0]

CombineIdle ==
    /\ c_pc = "idle"
    /\ json_dir = {}
    /\ json_files = <<>>
    /\ file_i = 0
    /\ all_records = <<>>
    /\ file_stats = <<>>
    /\ processed = <<>>
    /\ output_file = [written |-> FALSE, rows |-> <<>>]

TimeIdle ==
    /\ t_pc = "idle"
    /\ t_fn = "none"
    /\ time_value = Null
    /\ start_time = Null
    /\ end_time = Null
    /\ t_result = Null

DownloadIdle ==
    /\ d_pc = "idle"
    /\ d_script = "json"
    /\ listing = <<>>
    /\ obj_i = 0
    /\ local_files = {}
    /\ local_dirs = {}
    /\ transfers = <<>>
    /\ downloaded = <<>>

DecompressIdle ==
    /\ z_pc = "idle"
    /\ z_script = "decompress_files"
    /\ source_dir = <<>>
    /\ gz_dir = {}
    /\ z_dirs = {}
    /\ gz_files = <<>>
    /\ gz_i = 0
    /\ z_files = {}
    /\ decompressed_files = <<>>

ParquetNameIdle ==
    /\ n_pc = "idle"
    /\ parquet_filename = <<>>
    /\ n_result = <<>>

GanttIdle ==
    /\ k_pc = "idle"
    /\ df_filtered = <<>>
    /\ gantt_idx = 0
    /\ intensity_matrix = <<>>

LaunchIdle ==
    /\ l_pc = "idle"
    /\ launcher = "launch_app"
    /\ json_exists = FALSE
    /\ parquet_exists = FALSE
    /\ importable = FALSE
    /\ pip_succeeds = FALSE
    /\ run_raises = FALSE
    /\ calls = <<>>
    /\ dashboard = "not_started"

\* ========================================================================
\* group_identical_rows (both scripts)
\* ========================================================================

\* Column texts as pd.read_csv(dtype=str, keep_default_na=False) delivers
\* them: no numeric normalisation, so "5" and "5.0" are different texts.
ColumnTexts == {"5", "5.0"}

\* header = pd.read_csv(input_csv, nrows=0).columns.tolist()
header == <<"provider", "ownerSequence">>

\* One data row: chunk.itertuples(index=False, name=None) gives a tuple of
\* the column texts.
RowTuples == [1..Len(header) -> ColumnTexts]

InputDatasets == UNION {[1..n -> RowTuples] : n \in 0..MaxRows}

\* row_counter[row] += 1 on a Counter (a dict: insertion ordered). A key
\* seen before keeps its place and gets count + 1; a new key is appended
\* with count 1.
CountRowOverwrite(counter, row) ==
    IF \E i \in 1..Len(counter) : counter[i].key = row
    THEN [i \in 1..Len(counter) |->
             IF counter[i].key = row
             THEN [key |-> row, count |-> 1]
             ELSE counter[i]]
    ELSE Append(counter, [key |-> row, count |-> 1])

CountRowFirstColumn(counter, row) ==
    IF \E i \in 1..Len(counter) : counter[i].key[1] = row[1]
    THEN [i \in 1..Len(counter) |->
             IF counter[i].key[1] = row[1]
             THEN [key |-> counter[i].key, count |-> counter[i].count + 1]
             ELSE counter[i]]
    ELSE Append(counter, [key |-> row, count |-> 1])

CountRowNoMerge(counter, row) == Append(counter, [key |-> row, count |-> 1])

CountRow(counter, row) ==
    IF \E i \in 1..Len(counter) : counter[i].key = row
    THEN [i \in 1..Len(counter) |->
             IF counter[i].key = row
             THEN [key |-> row, count |-> counter[i].count + 1]
             ELSE counter[i]]
    ELSE Append(counter, [key |-> row, count |-> 1])

\* The orders df_out.sort_values(count_col, ascending=False) can give: the
\* default sort kind is quicksort, which does not fix the order of ties.
SortedOrders(rows) ==
    {p \in [1..Len(rows) -> 1..Len(rows)] :
        /\ \A i, j \in 1..Len(rows) : i # j => p[i] # p[j]
        /\ \A i, j \in 1..Len(rows) :
              i < j => rows[p[i]].count >= rows[p[j]].count}

InitGroup ==
    /\ g_pc = "start"
    /\ script \in {"csv", "parquet"}
    /\ input_exists \in BOOLEAN
    /\ input_rows \in (IF input_exists THEN InputDatasets ELSE {<<>>})
    /\ chunksize \in 1..MaxChunk
    /\ pos = 0
    /\ chunk = <<>>
    /\ idx = 0
    /\ row_counter = <<>>
    /\ output_csv = <<>>
    /\ FlatIdle
    /\ FileIdle
    /\ CombineIdle
    /\ TimeIdle
    /\ DownloadIdle
    /\ DecompressIdle
    /\ ParquetNameIdle
    /\ GanttIdle
    /\ LaunchIdle

\* if not os.path.exists(input_csv): raise FileNotFoundError
\* CheckInputMissingIgnored is the function without the existence test: it
\* goes on to create the Counter and to read.
CheckInputMissingIgnored ==
    /\ g_pc = "start"
    /\ ~input_exists
    /\ row_counter' = <<>>
    /\ g_pc' = "read"
    /\ UNCHANGED <<script, input_exists, input_rows, chunksize, pos, chunk, idx,
                   output_csv>>
    /\ UNCHANGED notGroup

CheckInputMissing ==
    /\ g_pc = "start"
    /\ ~input_exists
    /\ g_pc' = "not_found"
    /\ UNCHANGED <<script, input_exists, input_rows, chunksize, pos, chunk, idx,
                   row_counter, output_csv>>
    /\ UNCHANGED notGroup

\* row_counter = Counter(); header = pd.read_csv(input_csv, nrows=0)...
CreateCounter ==
    /\ g_pc = "start"
    /\ input_exists
    /\ row_counter' = <<>>
    /\ g_pc' = "read"
    /\ UNCHANGED <<script, input_exists, input_rows, chunksize, pos, chunk, idx,
                   output_csv>>
    /\ UNCHANGED notGroup

\* for chunk in pd.read_csv(input_csv, chunksize=chunksize, ...): the next
\* chunk holds the next min(chunksize, rows left) rows.  ReadChunkResetting
\* is the loop with the Counter created inside it.
ReadChunkResetting ==
    /\ g_pc = "read"
    /\ pos < Len(input_rows)
    /\ chunk' = SubSeq(input_rows, pos + 1, Min(pos + chunksize, Len(input_rows)))
    /\ pos' = Min(pos + chunksize, Len(input_rows))
    /\ idx' = 0
    /\ row_counter' = <<>>
    /\ g_pc' = "tally"
    /\ UNCHANGED <<script, input_exists, input_rows, chunksize, output_csv>>
    /\ UNCHANGED notGroup

ReadChunk ==
    /\ g_pc = "read"
    /\ pos < Len(input_rows)
    /\ chunk' = SubSeq(input_rows, pos + 1, Min(pos + chunksize, Len(input_rows)))
    /\ pos' = Min(pos + chunksize, Len(input_rows))
    /\ idx' = 0
    /\ g_pc' = "tally"
    /\ UNCHANGED <<script, input_exists, input_rows, chunksize, row_counter,
                   output_csv>>
    /\ UNCHANGED notGroup

\* for row in chunk.itertuples(...): row_counter[row] += 1
TallyRow ==
    /\ g_pc = "tally"
    /\ idx < Len(chunk)
    /\ row_counter' = CountRow(row_counter, chunk[idx + 1])
    /\ idx' = idx + 1
    /\ g_pc' = IF idx + 1 = Len(chunk) THEN "read" ELSE "tally"
    /\ UNCHANGED <<script, input_exists, input_rows, chunksize, pos, chunk,
                   output_csv>>
    /\ UNCHANGED notGroup

\* rows = [list(key) + [count] for key, count in row_counter.items()];
\* group_identical_rows.py writes them in insertion order.
WriteCsv ==
    /\ g_pc = "read"
    /\ pos = Len(input_rows)
    /\ script = "csv"
    /\ output_csv' = row_counter
    /\ g_pc' = "done"
    /\ UNCHANGED <<script, input_exists, input_rows, chunksize, pos, chunk, idx,
                   row_counter>>
    /\ UNCHANGED notGroup

\* group_identical_parquet_rows.py sorts by the count column, descending,
\* before writing.  WriteSortedAscending is the call without
\* ascending=False.
WriteSortedAscending ==
    /\ g_pc = "read"
    /\ pos = Len(input_rows)
    /\ script = "parquet"
    /\ \E p \in SortedOrders(row_counter) :
          output_csv' = [i \in 1..Len(row_counter) |->
                            row_counter[p[Len(row_counter) + 1 - i]]]
    /\ g_pc' = "done"
    /\ UNCHANGED <<script, input_exists, input_rows, chunksize, pos, chunk, idx,
                   row_counter>>
    /\ UNCHANGED notGroup

WriteSorted ==
    /\ g_pc = "read"
    /\ pos = Len(input_rows)
    /\ script = "parquet"
    /\ \E p \in SortedOrders(row_counter) :
          output_csv' = [i \in 1..Len(row_counter) |-> row_counter[p[i]]]
    /\ g_pc' = "done"
    /\ UNCHANGED <<script, input_exists, input_rows, chunksize, pos, chunk, idx,
                   row_counter>>
    /\ UNCHANGED notGroup

NextGroup ==
    \/ CheckInputMissing
    \/ CreateCounter
    \/ ReadChunk
    \/ TallyRow
    \/ WriteCsv
    \/ WriteSorted

SpecGroup == InitGroup /\ [][NextGroup]_vars

\* Number of input rows consumed so far: delivered by the reader, minus the
\* rows of the current chunk still waiting.
Consumed == pos - (Len(chunk) - idx)

\* Number of input rows whose tuple of column texts is exactly key.
Multiplicity(key) == Cardinality({i \in 1..Len(input_rows) : input_rows[i] = key})

\* The tally of a dataset grouped as one single batch.
RECURSIVE WholeTally(_)
WholeTally(rows) ==
    IF rows = <<>> THEN <<>>
    ELSE CountRow(WholeTally(SubSeq(rows, 1, Len(rows) - 1)), rows[Len(rows)])

\* The (tuple, row_count) pairs of a list of counted rows.
Pairs(items) == {<<items[i].key, items[i].count>> : i \in 1..Len(items)}

\* ---- C1 ----------------------------------------------------------------
\* C1: row-count conservation. Once k input rows have been consumed the
\* counts of the tally add up to k, and on completion the row_count values
\* written add up to the number of input data rows, for every dataset and
\* every chunk size >= 1.
C1_RowCountConservation ==
    /\ g_pc \in {"read", "tally", "done"} => SumCounts(row_counter) = Consumed
    /\ g_pc = "done" => SumCounts(output_csv) = Len(input_rows)

C1_Witness ==
    /\ g_pc = "done"
    /\ Len(input_rows) >= 3
    /\ chunksize = 2
    /\ Len(output_csv) < Len(input_rows)

\* ---- C2 ----------------------------------------------------------------
\* C2: exact multiplicity. Every written row has row_count >= 1, equal to
\* the number of input rows with exactly that tuple of column texts; every
\* input tuple is written, so rows that differ in one column (ownerSequence
\* included) are never merged.
C2_ExactMultiplicity ==
    g_pc = "done" =>
        /\ \A i \in 1..Len(output_csv) :
              /\ output_csv[i].count >= 1
              /\ output_csv[i].count = Multiplicity(output_csv[i].key)
        /\ \A j \in 1..Len(input_rows) :
              \E i \in 1..Len(output_csv) : output_csv[i].key = input_rows[j]

C2_Witness ==
    /\ g_pc = "done"
    /\ \E a, b \in 1..Len(output_csv) :
          /\ output_csv[a].key[1] = output_csv[b].key[1]
          /\ output_csv[a].key[2] # output_csv[b].key[2]
          /\ output_csv[a].count = 2

\* ---- C3 ----------------------------------------------------------------
\* C3: key uniqueness. No two written rows share their tuple of non-count
\* column values, and the number of written rows is the number of distinct
\* tuples of the input.
C3_KeyUniqueness ==
    g_pc = "done" =>
        /\ \A i, j \in 1..Len(output_csv) :
              i # j => output_csv[i].key # output_csv[j].key
        /\ Len(output_csv) = Cardinality(Range(input_rows))

C3_Witness ==
    /\ g_pc = "done"
    /\ Len(output_csv) >= 2
    /\ Len(output_csv) < Len(input_rows)

\* ---- C4 ----------------------------------------------------------------
\* C4: whole-dataset grouping. The tally is never reset between batches:
\* at every point it is the tally of the consumed prefix grouped as one
\* batch, so the (tuple, row_count) pairs written are those of the whole
\* dataset grouped in one batch, whatever the chunk size.
C4_WholeDatasetGrouping ==
    /\ g_pc \in {"read", "tally", "done"} =>
          row_counter = WholeTally(SubSeq(input_rows, 1, Consumed))
    /\ g_pc = "done" => Pairs(output_csv) = Pairs(WholeTally(input_rows))

C4_Witness ==
    /\ g_pc = "done"
    /\ \E i, j \in 1..Len(input_rows) :
          /\ (i - 1) \div chunksize # (j - 1) \div chunksize
          /\ input_rows[i] = input_rows[j]

\* ---- C11 ---------------------------------------------------------------
\* C11: missing input fails fast. When the input path does not exist the
\* function never gets past the existence test: it is at its entry or has
\* raised FileNotFoundError, no chunk was read, nothing was tallied and
\* output_csv was not written; FileNotFoundError is raised only for a
\* missing input.
C11_MissingInputFailsFast ==
    /\ ~input_exists =>
          /\ g_pc \in {"start", "not_found"}
          /\ pos = 0
          /\ chunk = <<>>
          /\ idx = 0
          /\ row_counter = <<>>
          /\ output_csv = <<>>
    /\ g_pc = "not_found" => ~input_exists

C11_Witness ==
    /\ g_pc = "not_found"
    /\ ~input_exists
    /\ script = "parquet"
    /\ output_csv = <<>>

\* ---- C12 ---------------------------------------------------------------
\* Index of the first input row holding the tuple key.
FirstSeen(key) ==
    CHOOSE i \in 1..Len(input_rows) :
        /\ input_rows[i] = key
        /\ \A j \in 1..(i - 1) : input_rows[j] # key

Descending(items) ==
    \A i, j \in 1..Len(items) : i < j => items[i].count >= items[j].count

DiscoveryOrder(items) ==
    \A i, j \in 1..Len(items) :
        i < j => FirstSeen(items[i].key) < FirstSeen(items[j].key)

\* C12 as claimed: output ordering. The written rows are sorted by
\* descending row_count, and rows with equal row_count appear in their
\* first-discovery order.
C12_OutputOrdering ==
    g_pc = "done" =>
        /\ Descending(output_csv)
        /\ \A i, j \in 1..Len(output_csv) :
              (i < j /\ output_csv[i].count = output_csv[j].count) =>
                  FirstSeen(output_csv[i].key) < FirstSeen(output_csv[j].key)

\* C12 as amended: group_identical_parquet_rows.py writes the counted rows
\* sorted by descending row_count (a rearrangement of the tally, the order
\* among equal counts not fixed); group_identical_rows.py writes them
\* unsorted, in first-discovery order.
C12_OrderingByScript ==
    g_pc = "done" =>
        /\ script = "parquet" =>
              /\ Descending(output_csv)
              /\ Len(output_csv) = Len(row_counter)
              /\ Range(output_csv) = Range(row_counter)
        /\ script = "csv" =>
              /\ output_csv = row_counter
              /\ DiscoveryOrder(output_csv)

C12_Witness ==
    /\ g_pc = "done"
    /\ script = "parquet"
    /\ Len(output_csv) >= 3
    /\ output_csv[1].count > output_csv[2].count
    /\ output_csv[2].count = output_csv[3].count
    /\ FirstSeen(output_csv[1].key) > FirstSeen(output_csv[2].key)

\* ========================================================================
\* combine_all_data.py: flatten_record
\* ========================================================================

\* ---- Python dict operations on a sequence of <<key, value>> pairs ------
Keys(ps) == {ps[i][1] : i \in 1..Len(ps)}

\* d[k]
Lookup(ps, k) == ps[CHOOSE i \in 1..Len(ps) : ps[i][1] = k][2]

\* d.get(k, default)
GetOr(ps, k, default) == IF k \in Keys(ps) THEN Lookup(ps, k) ELSE default

\* d[k] = v: an existing key keeps its place, a new key goes last
Put(ps, k, v) ==
    IF k \in Keys(ps)
    THEN [i \in 1..Len(ps) |-> IF ps[i][1] = k THEN <<k, v>> ELSE ps[i]]
    ELSE Append(ps, <<k, v>>)

\* bool(v)
Truthy(v) ==
    CASE IsNull(v) -> FALSE
      [] IsInt(v)  -> v.int # 0
      [] IsStr(v)  -> v.str # ""
      [] IsList(v) -> v.list # <<>>
      [] IsDict(v) -> v.dict # <<>>

\* for key, value in block.items(): row[prefix + key] = value
RECURSIVE PutAll(_, _, _)
PutAll(row, prefix, ps) ==
    IF ps = <<>> THEN row
    ELSE PutAll(Put(row, prefix \o ps[1][1], ps[1][2]), prefix, Tail(ps))

\* The time-box loop (lines 63-69 with prefix timeBox_, lines 100-106 with
\* prefix timebox_): a value that is itself a dict is flattened one level.
RECURSIVE FlattenTimeBox(_, _, _)
FlattenTimeBox(row, prefix, ps) ==
    IF ps = <<>> THEN row
    ELSE LET key == ps[1][1]
             value == ps[1][2]
         IN  FlattenTimeBox(
                 IF IsDict(value)
                 THEN PutAll(row, prefix \o key \o "_", value.dict)
                 ELSE Put(row, prefix \o key, value),
                 prefix, Tail(ps))

\* The column a providerSiteCode key is written to (lines 40-45).
\* ProviderSiteColumnSwapped has the two names exchanged.
ProviderSiteColumnSwapped(key) ==
    IF key = "x" THEN "site"
    ELSE IF key = "y" THEN "provider"
    ELSE "providerSiteCode_" \o key

ProviderSiteColumn(key) ==
    IF key = "x" THEN "provider"
    ELSE IF key = "y" THEN "site"
    ELSE "providerSiteCode_" \o key

RECURSIVE FlattenProviderSite(_, _)
FlattenProviderSite(row, ps) ==
    IF ps = <<>> THEN row
    ELSE FlattenProviderSite(Put(row, ProviderSiteColumn(ps[1][1]), ps[1][2]),
                             Tail(ps))

\* 'k' in record and record['k'] is not a mapping: .items() / .get raise.
BadBlock(rec, k) == k \in Keys(rec.dict) /\ ~IsDict(Lookup(rec.dict, k))

\* Lines 30-69 raise: the record supports neither `in` nor a needed block
\* method. (Records enumerated here are dicts, null or numbers.)
BaseRaises(rec) ==
    IF ~IsDict(rec) THEN TRUE
    ELSE \/ BadBlock(rec, "providerSiteCode")
         \/ BadBlock(rec, "siteHierarchy")
         \/ BadBlock(rec, "timeBox")

\* Lines 30-69, with a null placeholder written for every missing block.
BaseFlattenedNullFilled(rec, cf, id) ==
    LET r0 == <<<<"collection_frequency", cf>>, <<"hourly_collection_plan_id", id>>>>
        r1 == IF "providerSiteCode" \in Keys(rec.dict)
              THEN FlattenProviderSite(r0, Lookup(rec.dict, "providerSiteCode").dict)
              ELSE Put(Put(r0, "provider", Null), "site", Null)
        sh == IF "siteHierarchy" \in Keys(rec.dict)
              THEN Lookup(rec.dict, "siteHierarchy").dict ELSE <<>>
        r2 == Put(Put(Put(r1,
                  "siteHierarchy_customer", GetOr(sh, "customer", Null)),
                  "siteHierarchy_customerSiteCode", GetOr(sh, "customerSiteCode", Null)),
                  "siteHierarchy_priority", GetOr(sh, "priority", Null))
        r3 == Put(r2, "requests_count",
                  IF "request" \in Keys(rec.dict) THEN I(1) ELSE I(0))
        r4 == Put(r3, "enrichment_request_count", I(0))
    IN  IF "timeBox" \in Keys(rec.dict)
        THEN FlattenTimeBox(r4, "timeBox_", Lookup(rec.dict, "timeBox").dict)
        ELSE r4

\* Lines 30-69: base_flattened, for a record on which they do not raise.
BaseFlattened(rec, cf, id) ==
    LET r0 == <<<<"collection_frequency", cf>>, <<"hourly_collection_plan_id", id>>>>
        r1 == IF "providerSiteCode" \in Keys(rec.dict)
              THEN FlattenProviderSite(r0, Lookup(rec.dict, "providerSiteCode").dict)
              ELSE r0
        r2 == IF "siteHierarchy" \in Keys(rec.dict)
              THEN LET site_hier == Lookup(rec.dict, "siteHierarchy").dict
                   IN  Put(Put(Put(r1,
                           "siteHierarchy_customer", GetOr(site_hier, "customer", Null)),
                           "siteHierarchy_customerSiteCode",
                               GetOr(site_hier, "customerSiteCode", Null)),
                           "siteHierarchy_priority", GetOr(site_hier, "priority", Null))
              ELSE r1
        r3 == Put(r2, "requests_count",
                  IF "request" \in Keys(rec.dict) THEN I(1) ELSE I(0))
        r4 == Put(r3, "enrichment_request_count", I(0))
    IN  IF "timeBox" \in Keys(rec.dict)
        THEN FlattenTimeBox(r4, "timeBox_", Lookup(rec.dict, "timeBox").dict)
        ELSE r4

\* Line 74: 'requestOwners' in record and record['requestOwners']
HasOwners(rec) ==
    /\ "requestOwners" \in Keys(rec.dict)
    /\ Truthy(Lookup(rec.dict, "requestOwners"))

\* The owners enumerate() walks. (requestOwners values enumerated here are
\* lists or null.)
Owners(rec) == Lookup(rec.dict, "requestOwners").list

\* Lines 77-106 raise on this owner.
OwnerRaises(owner) ==
    IF ~IsDict(owner) THEN TRUE
    ELSE \/ BadBlock(owner, "customerCollection")
         \/ BadBlock(owner, "input")
         \/ BadBlock(owner, "timeBox")

\* Lines 77-106 with ownerSequence left 0-based.
OwnerRowZeroBased(base, i, owner) ==
    LET r0 == Put(base, "ownerSequence", I(i))
        r1 == IF "customerCollection" \in Keys(owner.dict)
              THEN PutAll(r0, "customerCollection_",
                          Lookup(owner.dict, "customerCollection").dict)
              ELSE r0
        r2 == IF "input" \in Keys(owner.dict)
              THEN LET inp == Lookup(owner.dict, "input").dict
                   IN  Put(Put(r1, "input_filename", GetOr(inp, "name", Null)),
                           "input_reference",
                           GetOr(inp, "reference", GetOr(inp, "id", Null)))
              ELSE r1
        r3 == Put(r2, "inputRequest_exists",
                  IF "inputRequest" \in Keys(owner.dict) THEN I(1) ELSE I(0))
    IN  IF "timeBox" \in Keys(owner.dict)
        THEN FlattenTimeBox(r3, "timebox_", Lookup(owner.dict, "timeBox").dict)
        ELSE r3

\* Lines 77-106 with input_reference read as inp.get('reference') or
\* inp.get('id'): a null reference falls back to id as an absent one does.
OwnerRowFalsyFallback(base, i, owner) ==
    LET r0 == Put(base, "ownerSequence", I(i + 1))
        r1 == IF "customerCollection" \in Keys(owner.dict)
              THEN PutAll(r0, "customerCollection_",
                          Lookup(owner.dict, "customerCollection").dict)
              ELSE r0
        r2 == IF "input" \in Keys(owner.dict)
              THEN LET inp == Lookup(owner.dict, "input").dict
                       reference == GetOr(inp, "reference", Null)
                   IN  Put(Put(r1, "input_filename", GetOr(inp, "name", Null)),
                           "input_reference",
                           IF reference = Null THEN GetOr(inp, "id", Null)
                           ELSE reference)
              ELSE r1
        r3 == Put(r2, "inputRequest_exists",
                  IF "inputRequest" \in Keys(owner.dict) THEN I(1) ELSE I(0))
    IN  IF "timeBox" \in Keys(owner.dict)
        THEN FlattenTimeBox(r3, "timebox_", Lookup(owner.dict, "timeBox").dict)
        ELSE r3

\* Lines 77-106: the row of the owner at enumerate index i (0-based), for
\* an owner on which they do not raise.
OwnerRow(base, i, owner) ==
    LET r0 == Put(base, "ownerSequence", I(i + 1))
        r1 == IF "customerCollection" \in Keys(owner.dict)
              THEN PutAll(r0, "customerCollection_",
                          Lookup(owner.dict, "customerCollection").dict)
              ELSE r0
        r2 == IF "input" \in Keys(owner.dict)
              THEN LET inp == Lookup(owner.dict, "input").dict
                   IN  Put(Put(r1, "input_filename", GetOr(inp, "name", Null)),
                           "input_reference",
                           GetOr(inp, "reference", GetOr(inp, "id", Null)))
              ELSE r1
        r3 == Put(r2, "inputRequest_exists",
                  IF "inputRequest" \in Keys(owner.dict) THEN I(1) ELSE I(0))
    IN  IF "timeBox" \in Keys(owner.dict)
        THEN FlattenTimeBox(r3, "timebox_", Lookup(owner.dict, "timeBox").dict)
        ELSE r3

\* Lines 115-126: the owner columns written as placeholders.
OwnerPlaceholders ==
    <<<<"customerCollection_id", Null>>,
      <<"customerCollection_customer", Null>>,
      <<"customerCollection_name", Null>>,
      <<"customerCollection_frequency", Null>>,
      <<"customerCollection_earliestStartTime", Null>>,
      <<"customerCollection_expectedDeliveryTime", Null>>,
      <<"customerCollection_hints", Null>>,
      <<"customerCollection_status", Null>>,
      <<"customerCollection_customerPackagingId", Null>>,
      <<"input_filename", Null>>,
      <<"input_reference", Null>>,
      <<"inputRequest_exists", I(0)>>>>

\* Lines 111-126: the single row of a record without owners.
NoOwnerRow(base) == PutAll(Put(base, "ownerSequence", I(1)), "", OwnerPlaceholders)

\* flatten_record as a whole: rows is what it returns, ok is FALSE when
\* it raises.
FlattenRecord(rec, cf, id) ==
    IF BaseRaises(rec) THEN [ok |-> FALSE, rows |-> <<>>]
    ELSE LET base == BaseFlattened(rec, cf, id)
         IN  IF HasOwners(rec)
             THEN IF \E i \in 1..Len(Owners(rec)) : OwnerRaises(Owners(rec)[i])
                  THEN [ok |-> FALSE, rows |-> <<>>]
                  ELSE [ok |-> TRUE,
                        rows |-> [i \in 1..Len(Owners(rec)) |->
                                     OwnerRow(base, i - 1, Owners(rec)[i])]]
             ELSE [ok |-> TRUE, rows |-> <<NoOwnerRow(base)>>]

\* ---- the records flatten_record is run on -------------------------------
ProviderSiteOptions ==
    { <<>>,
      <<<<"providerSiteCode", D(<<<<"x", S("AA")>>, <<"y", S("JFK")>>>>)>>>>,
      <<<<"providerSiteCode", D(<<<<"y", S("JFK")>>, <<"x", S("AA")>>>>)>>>>,
      <<<<"providerSiteCode",
          D(<<<<"x", S("AA")>>, <<"y", S("JFK")>>, <<"z", S("T1")>>>>)>>>>,
      <<<<"providerSiteCode", S("AA|JFK")>>>> }

SiteHierarchyOptions ==
    { <<>>,
      <<<<"siteHierarchy", D(<<<<"customer", S("c1")>>, <<"priority", I(1)>>>>)>>>> }

RequestOptions == { <<>>, <<<<"request", D(<<>>)>>>> }

TimeBoxOptions ==
    { <<>>,
      <<<<"timeBox",
          D(<<<<"startTime", D(<<<<"date", S("2024-01-01")>>, <<"time", I(2330)>>>>)>>,
              <<"tz", S("UTC")>>>>)>>>> }

FullCustomerCollection ==
    D(<<<<"id", I(5)>>, <<"customer", S("c1")>>, <<"name", S("full")>>,
        <<"frequency", S("daily")>>, <<"earliestStartTime", I(800)>>,
        <<"expectedDeliveryTime", I(1700)>>, <<"hints", Null>>,
        <<"status", S("active")>>, <<"customerPackagingId", I(3)>>>>)

OwnerOptions ==
    { D(<<>>),
      D(<<<<"customerCollection", D(<<<<"id", I(7)>>, <<"name", S("n7")>>>>)>>,
          <<"input", D(<<<<"name", S("f.csv")>>, <<"reference", S("r1")>>,
                          <<"id", I(9)>>>>)>>,
          <<"inputRequest", D(<<>>)>>,
          <<"timeBox", D(<<<<"startTime", D(<<<<"time", I(800)>>>>)>>>>)>>>>),
      D(<<<<"customerCollection", D(<<<<"id", I(8)>>>>)>>,
          <<"input", D(<<<<"id", I(9)>>>>)>>>>),
      D(<<<<"customerCollection", FullCustomerCollection>>,
          <<"input", D(<<<<"name", S("g.csv")>>, <<"reference", S("r2")>>>>)>>>>),
      D(<<<<"input", D(<<>>)>>>>),
      D(<<<<"input", D(<<<<"reference", Null>>, <<"id", I(9)>>>>)>>>>),
      Null }

OwnerLists == UNION {[1..n -> OwnerOptions] : n \in 0..MaxOwners}

RequestOwnersOptions ==
    {<<>>, <<<<"requestOwners", Null>>>>}
        \cup {<<<<"requestOwners", L(os)>>>> : os \in OwnerLists}

Records ==
    {D(psc \o sh \o rq \o tb \o ro) :
        psc \in ProviderSiteOptions, sh \in SiteHierarchyOptions,
        rq \in RequestOptions, tb \in TimeBoxOptions,
        ro \in RequestOwnersOptions}
      \cup {Null}

Metadata == {<<Null, Null>>, <<S("daily"), I(429)>>}

InitFlat ==
    /\ GroupIdle
    /\ FileIdle
    /\ CombineIdle
    /\ TimeIdle
    /\ DownloadIdle
    /\ DecompressIdle
    /\ ParquetNameIdle
    /\ GanttIdle
    /\ LaunchIdle
    /\ f_pc = "base"
    /\ record \in Records
    /\ \E m \in Metadata :
          /\ collection_frequency = m[1]
          /\ hourly_collection_plan_id = m[2]
    /\ base_flattened = <<>>
    /\ owner_idx = 0
    /\ result_rows = <<>>

\* Lines 30-69 raise.
FlattenBaseRaise ==
    /\ f_pc = "base"
    /\ BaseRaises(record)
    /\ f_pc' = "raised"
    /\ UNCHANGED <<record, collection_frequency, hourly_collection_plan_id,
                   base_flattened, owner_idx, result_rows>>
    /\ UNCHANGED notFlat

\* Lines 30-74: build base_flattened, then take the branch of line 74.
FlattenBase ==
    /\ f_pc = "base"
    /\ ~BaseRaises(record)
    /\ base_flattened' =
          BaseFlattened(record, collection_frequency, hourly_collection_plan_id)
    /\ result_rows' = <<>>
    /\ owner_idx' = 0
    /\ f_pc' = IF HasOwners(record) THEN "owners" ELSE "no_owners"
    /\ UNCHANGED <<record, collection_frequency, hourly_collection_plan_id>>
    /\ UNCHANGED notFlat

\* Lines 75-108: one iteration of the owner loop.  FlattenOwnerNoCopy is
\* the iteration with flattened = base_flattened, without .copy(): the
\* owner's columns are written into base_flattened itself, and the rows
\* appended before are that same dict.
FlattenOwnerNoCopy ==
    /\ f_pc = "owners"
    /\ owner_idx < Len(Owners(record))
    /\ ~OwnerRaises(Owners(record)[owner_idx + 1])
    /\ LET flattened == OwnerRow(base_flattened, owner_idx,
                                 Owners(record)[owner_idx + 1])
       IN  /\ base_flattened' = flattened
           /\ result_rows' = [i \in 1..(Len(result_rows) + 1) |-> flattened]
    /\ owner_idx' = owner_idx + 1
    /\ UNCHANGED <<f_pc, record, collection_frequency, hourly_collection_plan_id>>
    /\ UNCHANGED notFlat

FlattenOwner ==
    /\ f_pc = "owners"
    /\ owner_idx < Len(Owners(record))
    /\ ~OwnerRaises(Owners(record)[owner_idx + 1])
    /\ result_rows' =
          Append(result_rows,
                 OwnerRow(base_flattened, owner_idx, Owners(record)[owner_idx + 1]))
    /\ owner_idx' = owner_idx + 1
    /\ UNCHANGED <<f_pc, record, collection_frequency, hourly_collection_plan_id,
                   base_flattened>>
    /\ UNCHANGED notFlat

\* Lines 75-108 raise on the owner reached.
FlattenOwnerRaise ==
    /\ f_pc = "owners"
    /\ owner_idx < Len(Owners(record))
    /\ OwnerRaises(Owners(record)[owner_idx + 1])
    /\ f_pc' = "raised"
    /\ UNCHANGED <<record, collection_frequency, hourly_collection_plan_id,
                   base_flattened, owner_idx, result_rows>>
    /\ UNCHANGED notFlat

\* Lines 109-128, then return result_rows.
FlattenNoOwners ==
    /\ f_pc = "no_owners"
    /\ result_rows' = Append(result_rows, NoOwnerRow(base_flattened))
    /\ f_pc' = "returned"
    /\ UNCHANGED <<record, collection_frequency, hourly_collection_plan_id,
                   base_flattened, owner_idx>>
    /\ UNCHANGED notFlat

\* Line 130 after the owner loop.
FlattenReturn ==
    /\ f_pc = "owners"
    /\ owner_idx = Len(Owners(record))
    /\ f_pc' = "returned"
    /\ UNCHANGED <<record, collection_frequency, hourly_collection_plan_id,
                   base_flattened, owner_idx, result_rows>>
    /\ UNCHANGED notFlat

NextFlat ==
    \/ FlattenBaseRaise
    \/ FlattenBase
    \/ FlattenOwner
    \/ FlattenOwnerRaise
    \/ FlattenNoOwners
    \/ FlattenReturn

SpecFlat == InitFlat /\ [][NextFlat]_vars

\* N: the number of requestOwners of a record (0 when the key is absent or
\* its value is null).
NumOwners(rec) ==
    IF /\ IsDict(rec)
       /\ "requestOwners" \in Keys(rec.dict)
       /\ IsList(Lookup(rec.dict, "requestOwners"))
    THEN Len(Lookup(rec.dict, "requestOwners").list)
    ELSE 0

\* ---- C5 ----------------------------------------------------------------
\* C5: owner-count expansion. flatten_record returns exactly max(1, N) rows
\* for a record with N requestOwners; the i-th row has ownerSequence = i
\* and carries the data of the i-th owner (original order); a record
\* without owners (key absent, null or empty list) gives one row with
\* ownerSequence = 1.
C5_OwnerCountExpansion ==
    f_pc = "returned" =>
        /\ Len(result_rows) = Max(1, NumOwners(record))
        /\ \A i \in 1..Len(result_rows) :
              Lookup(result_rows[i], "ownerSequence") = I(i)
        /\ \A i \in 1..NumOwners(record) :
              LET owner == Owners(record)[i].dict
                  cc == GetOr(owner, "customerCollection", D(<<>>)).dict
              IN  /\ \A k \in Keys(cc) :
                        Lookup(result_rows[i], "customerCollection_" \o k)
                            = Lookup(cc, k)
                  /\ Lookup(result_rows[i], "inputRequest_exists")
                        = (IF "inputRequest" \in Keys(owner) THEN I(1) ELSE I(0))
        /\ NumOwners(record) = 0 =>
              Lookup(result_rows[1], "ownerSequence") = I(1)

C5_Witness ==
    /\ f_pc = "returned"
    /\ NumOwners(record) = 2
    /\ Owners(record)[1] # Owners(record)[2]
    /\ Len(result_rows) = 2
    /\ "customerCollection_id" \in Keys(result_rows[2])

\* ---- C6 ----------------------------------------------------------------
\* The record with its requestOwners key removed: a zero-owner record with
\* the same parent blocks.
WithoutOwners(rec) ==
    D(SelectSeq(rec.dict, LAMBDA pr : pr[1] # "requestOwners"))

\* C6: schema uniformity across owner counts. The rows of a record with
\* N > 0 owners have the same column set as the row of a record with zero
\* owners flattened with the same metadata arguments, whatever keys the
\* owners' customerCollection, input and timeBox blocks contain or omit.
\* (Stated for two records with the same parent blocks.)
C6_SchemaUniformity ==
    (f_pc = "returned" /\ NumOwners(record) > 0) =>
        \A i \in 1..Len(result_rows) :
            Keys(result_rows[i])
                = Keys(FlattenRecord(WithoutOwners(record), collection_frequency,
                                     hourly_collection_plan_id).rows[1])

\* ---- C7 ----------------------------------------------------------------
\* A record given every parent block it lacks.
ReferenceBlocks ==
    <<<<"providerSiteCode", D(<<<<"x", S("AA")>>, <<"y", S("JFK")>>>>)>>,
      <<"siteHierarchy", D(<<<<"customer", S("c1")>>, <<"priority", I(1)>>>>)>>,
      <<"timeBox", D(<<<<"tz", S("UTC")>>>>)>>>>

Complete(rec) ==
    D(rec.dict \o SelectSeq(ReferenceBlocks, LAMBDA pr : pr[1] \notin Keys(rec.dict)))

\* C7 as claimed: fixed column set. Every row returned by flatten_record
\* carries the same columns whichever of the blocks providerSiteCode,
\* siteHierarchy and timeBox the record contains: the columns of a missing
\* block are present, holding null.
C7_FixedColumnSet ==
    f_pc = "returned" =>
        \A i \in 1..Len(result_rows) :
            LET full == FlattenRecord(Complete(record), collection_frequency,
                                      hourly_collection_plan_id).rows[i]
            IN  /\ Keys(result_rows[i]) = Keys(full)
                /\ \A c \in Keys(full) :
                      Lookup(result_rows[i], c) # Lookup(full, c)
                          => Lookup(result_rows[i], c) = Null

\* The columns each part of a record gives.
AlwaysColumns ==
    {"collection_frequency", "hourly_collection_plan_id", "requests_count",
     "enrichment_request_count", "ownerSequence", "inputRequest_exists"}

TimeBoxColumns(prefix, holder) ==
    IF "timeBox" \notin Keys(holder) THEN {}
    ELSE LET tb == Lookup(holder, "timeBox").dict
         IN  UNION {IF IsDict(Lookup(tb, k))
                    THEN {prefix \o k \o "_" \o sub : sub \in Keys(Lookup(tb, k).dict)}
                    ELSE {prefix \o k} : k \in Keys(tb)}

ParentBlockColumns(rec) ==
    (IF "providerSiteCode" \in Keys(rec)
     THEN {IF k = "x" THEN "provider"
           ELSE IF k = "y" THEN "site"
           ELSE "providerSiteCode_" \o k :
              k \in Keys(Lookup(rec, "providerSiteCode").dict)}
     ELSE {})
    \cup (IF "siteHierarchy" \in Keys(rec)
          THEN {"siteHierarchy_customer", "siteHierarchy_customerSiteCode",
                "siteHierarchy_priority"}
          ELSE {})
    \cup TimeBoxColumns("timeBox_", rec)

OwnerBlockColumns(owner) ==
    (IF "customerCollection" \in Keys(owner)
     THEN {"customerCollection_" \o k :
              k \in Keys(Lookup(owner, "customerCollection").dict)}
     ELSE {})
    \cup (IF "input" \in Keys(owner)
          THEN {"input_filename", "input_reference"} ELSE {})
    \cup TimeBoxColumns("timebox_", owner)

\* C7 as amended: the columns collection_frequency,
\* hourly_collection_plan_id, requests_count, enrichment_request_count,
\* ownerSequence and inputRequest_exists are in every returned row whatever
\* blocks the record contains; the columns of providerSiteCode,
\* siteHierarchy and timeBox are present exactly when the record contains
\* that block (a present siteHierarchy gives its three columns, null for a
\* missing sub-field), so a missing block yields absent columns.
C7_BlockColumnsFollowBlocks ==
    f_pc = "returned" =>
        \A i \in 1..Len(result_rows) :
            /\ AlwaysColumns \subseteq Keys(result_rows[i])
            /\ Keys(result_rows[i])
                  = AlwaysColumns
                    \cup ParentBlockColumns(record.dict)
                    \cup (IF NumOwners(record) > 0
                          THEN OwnerBlockColumns(Owners(record)[i].dict)
                          ELSE Keys(OwnerPlaceholders))
            /\ "siteHierarchy" \in Keys(record.dict) =>
                  \A f \in {"customer", "customerSiteCode", "priority"} :
                      Lookup(result_rows[i], "siteHierarchy_" \o f)
                          = GetOr(Lookup(record.dict, "siteHierarchy").dict, f, Null)

C7_Witness ==
    /\ f_pc = "returned"
    /\ "providerSiteCode" \notin Keys(record.dict)
    /\ "timeBox" \notin Keys(record.dict)
    /\ "siteHierarchy" \in Keys(record.dict)
    /\ "provider" \notin Keys(result_rows[1])
    /\ Lookup(result_rows[1], "siteHierarchy_customerSiteCode") = Null

\* ========================================================================
\* combine_all_data.py: extract_metadata_from_filename, process_json_file
\* ========================================================================

\* File names and paths are sequences of one-character strings.
LowerCase == <<"a", "b", "c", "d", "e", "f", "g", "h", "i", "j", "k", "l", "m", "n", "o", "p", "q", "r", "s", "t", "u", "v", "w", "x", "y", "z">>

UpperCase == <<"A", "B", "C", "D", "E", "F", "G", "H", "I", "J", "K", "L", "M", "N", "O", "P", "Q", "R", "S", "T", "U", "V", "W", "X", "Y", "Z">>

DigitChars == <<"0", "1", "2", "3", "4", "5", "6", "7", "8", "9">>

\* [a-zA-Z]
Letters == Range(LowerCase) \cup Range(UpperCase)

\* \d (the ASCII digits; names with other Unicode digits are not enumerated)
Digits == Range(DigitChars)

\* The characters in code-point order, as sorted() compares strings.
AsciiOrder == <<"\n", "-", ".", "/">> \o DigitChars \o UpperCase \o <<"_">> \o LowerCase

CharCode(c) == CHOOSE i \in 1..Len(AsciiOrder) : AsciiOrder[i] = c

DigitValue(c) == (CHOOSE i \in 1..Len(DigitChars) : DigitChars[i] = c) - 1

\* int(text) of a run of digits
RECURSIVE IntOf(_)
IntOf(ds) ==
    IF ds = <<>> THEN 0
    ELSE IntOf(SubSeq(ds, 1, Len(ds) - 1)) * 10 + DigitValue(ds[Len(ds)])

\* The str of a sequence of characters
RECURSIVE Join(_)
Join(cs) == IF cs = <<>> THEN "" ELSE cs[1] \o Join(Tail(cs))

\* Length of the longest run of characters of class cls that starts at i:
\* what a greedy cls+ consumes (nothing it could give back lets the rest of
\* the pattern match, the classes and the literals after them are disjoint).
RECURSIVE RunLength(_, _, _)
RunLength(name, i, cls) ==
    IF i <= Len(name) /\ name[i] \in cls
    THEN 1 + RunLength(name, i + 1, cls)
    ELSE 0

DotJson == <<".", "j", "s", "o", "n">>

\* re.match(r'([a-zA-Z]+)-(\d+)\.json$', filename): anchored at the start;
\* `$` matches at the end of the string and also just before a newline
\* that ends the string.
ExtractMetadataFromFilename(filename) ==
    LET a == RunLength(filename, 1, Letters)
        b == RunLength(filename, a + 2, Digits)
        e == a + 1 + b
    IN  IF /\ a >= 1
           /\ Len(filename) >= a + 1
           /\ filename[a + 1] = "-"
           /\ b >= 1
           /\ Len(filename) >= e + Len(DotJson)
           /\ SubSeq(filename, e + 1, e + Len(DotJson)) = DotJson
           /\ \/ Len(filename) = e + Len(DotJson)
              \/ /\ Len(filename) = e + Len(DotJson) + 1
                 /\ filename[Len(filename)] = "\n"
        THEN <<S(Join(SubSeq(filename, 1, a))), I(IntOf(SubSeq(filename, a + 2, e)))>>
        ELSE <<Null, Null>>

\* os.path.basename(path): what follows the last "/"
Basename(path) ==
    LET slashes == {i \in 1..Len(path) : path[i] = "/"}
        last == IF slashes = {} THEN 0
                ELSE CHOOSE i \in slashes : \A j \in slashes : j <= i
    IN  SubSeq(path, last + 1, Len(path))

\* a + b + ... of a list of lists
RECURSIVE Concat(_)
Concat(ss) == IF ss = <<>> THEN <<>> ELSE ss[1] \o Concat(Tail(ss))

\* Lines 141-158 take the except branch before the record loop: open() or
\* json.load raise (content not readable), or len(data) raises. (Top-level
\* JSON values enumerated here are arrays, numbers and null.)
LoadRaises(content) ==
    IF ~content.readable THEN TRUE ELSE ~IsList(content.data)

\* flatten_record returning no row for a record without owners.
FlattenRecordOwnersOnly(rec, cf, id) ==
    IF BaseRaises(rec) THEN [ok |-> FALSE, rows |-> <<>>]
    ELSE LET base == BaseFlattened(rec, cf, id)
         IN  IF HasOwners(rec)
             THEN IF \E i \in 1..Len(Owners(rec)) : OwnerRaises(Owners(rec)[i])
                  THEN [ok |-> FALSE, rows |-> <<>>]
                  ELSE [ok |-> TRUE,
                        rows |-> [i \in 1..Len(Owners(rec)) |->
                                     OwnerRow(base, i - 1, Owners(rec)[i])]]
             ELSE [ok |-> TRUE, rows |-> <<>>]

\* flatten_record(record, collection_frequency, hourly_collection_plan_id)
\* as process_json_file calls it (line 150).
FlattenCall(rec, cf, id) == FlattenRecord(rec, cf, id)

\* process_json_file(json_file_path) as a whole: the pair it returns.
ProcessJsonFile(path, content) ==
    LET meta == ExtractMetadataFromFilename(Basename(path))
    IN  IF LoadRaises(content) THEN [rows |-> <<>>, count |-> 0]
        ELSE LET data == content.data.list
                 flat == [i \in 1..Len(data) |-> FlattenCall(data[i], meta[1], meta[2])]
             IN  IF \E i \in 1..Len(data) : ~flat[i].ok
                 THEN [rows |-> <<>>, count |-> 0]
                 ELSE [rows |-> Concat([i \in 1..Len(data) |-> flat[i].rows]),
                       count |-> Len(data)]

\* ---- the files process_json_file is run on ------------------------------
StemChars == {"d", "Z", "-", "4", "0", "_"}

Stems == UNION {[1..n -> StemChars] : n \in 0..MaxStem}

Extensions == {DotJson, DotJson \o <<"\n">>, <<".", "j", "s">>}

AllNames == {st \o ext : st \in Stems, ext \in Extensions}

FewPaths ==
    { <<"d", "a", "i", "l", "y", "-", "4", "2", "9", ".", "j", "s", "o", "n">>,
      <<"s", "3", "/", "a", "d", "h", "o", "c", "-", "4", "3", "8", ".", "j", "s", "o", "n">>,
      <<"d", "a", "i", "l", "y", "4", "2", "9", ".", "j", "s", "o", "n">> }

RecordTwoOwners ==
    D(<<<<"providerSiteCode", D(<<<<"x", S("AA")>>, <<"y", S("JFK")>>>>)>>,
        <<"request", D(<<>>)>>,
        <<"requestOwners",
          L(<<D(<<<<"customerCollection", D(<<<<"id", I(7)>>>>)>>>>),
              D(<<<<"customerCollection", D(<<<<"id", I(8)>>>>)>>,
                  <<"input", D(<<<<"id", I(9)>>>>)>>>>)>>)>>>>)

RecordOneOwner ==
    D(<<<<"requestOwners", L(<<D(<<<<"inputRequest", D(<<>>)>>>>)>>)>>>>)

RecordNoOwners ==
    D(<<<<"siteHierarchy", D(<<<<"customer", S("c1")>>>>)>>,
        <<"requestOwners", L(<<>>)>>>>)

RecordBadBlock == D(<<<<"timeBox", L(<<>>)>>>>)

RecordSamples == {RecordTwoOwners, RecordOneOwner, RecordNoOwners, RecordBadBlock}

Unreadable == [readable |-> FALSE, data |-> Null]

AllContents ==
    {[readable |-> TRUE, data |-> L(rs)] :
        rs \in UNION {[1..n -> RecordSamples] : n \in 0..MaxRecords}}
      \cup {Unreadable, [readable |-> TRUE, data |-> I(5)]}

FewContents ==
    { [readable |-> TRUE, data |-> L(<<RecordNoOwners, RecordTwoOwners>>)],
      [readable |-> TRUE, data |-> L(<<RecordTwoOwners, RecordBadBlock>>)] }

\* Every name with a few contents, and a few paths with every content.
FileCases == (AllNames \X FewContents) \cup (FewPaths \X AllContents)

InitFile ==
    /\ GroupIdle
    /\ FlatIdle
    /\ CombineIdle
    /\ TimeIdle
    /\ DownloadIdle
    /\ DecompressIdle
    /\ ParquetNameIdle
    /\ GanttIdle
    /\ LaunchIdle
    /\ p_pc = "start"
    /\ \E fc \in FileCases :
          /\ json_file_path = fc[1]
          /\ file_content = fc[2]
    /\ file_frequency = Null
    /\ file_plan_id = Null
    /\ warned = FALSE
    /\ rec_i = 0
    /\ csv_records = <<>>
    /\ original_record_count = 0
    /\ returned = [rows |-> <<>>, count |-> 0]

\* Lines 135-139
ExtractMetadata ==
    /\ p_pc = "start"
    /\ LET meta == ExtractMetadataFromFilename(Basename(json_file_path))
       IN  /\ file_frequency' = meta[1]
           /\ file_plan_id' = meta[2]
           /\ warned' = (meta[1] = Null)
    /\ p_pc' = "load"
    /\ UNCHANGED <<json_file_path, file_content, rec_i, csv_records,
                   original_record_count, returned>>
    /\ UNCHANGED notFile

\* Lines 142-147 raise: except branch, return [], 0
LoadRaise ==
    /\ p_pc = "load"
    /\ LoadRaises(file_content)
    /\ returned' = [rows |-> <<>>, count |-> 0]
    /\ p_pc' = "failed"
    /\ UNCHANGED <<json_file_path, file_content, file_frequency, file_plan_id,
                   warned, rec_i, csv_records, original_record_count>>
    /\ UNCHANGED notFile

\* Lines 142-147
Load ==
    /\ p_pc = "load"
    /\ ~LoadRaises(file_content)
    /\ csv_records' = <<>>
    /\ original_record_count' = Len(file_content.data.list)
    /\ rec_i' = 0
    /\ p_pc' = "records"
    /\ UNCHANGED <<json_file_path, file_content, file_frequency, file_plan_id,
                   warned, returned>>
    /\ UNCHANGED notFile

\* Lines 149-151: one iteration of the record loop
FlattenNext ==
    /\ p_pc = "records"
    /\ rec_i < Len(file_content.data.list)
    /\ LET flat == FlattenCall(file_content.data.list[rec_i + 1],
                               file_frequency, file_plan_id)
       IN  /\ flat.ok
           /\ csv_records' = csv_records \o flat.rows
    /\ rec_i' = rec_i + 1
    /\ UNCHANGED <<p_pc, json_file_path, file_content, file_frequency,
                   file_plan_id, warned, original_record_count, returned>>
    /\ UNCHANGED notFile

\* Line 150 raises, with an except branch that returns the rows
\* collected before the failing record.
FlattenNextRaiseKeepingRows ==
    /\ p_pc = "records"
    /\ rec_i < Len(file_content.data.list)
    /\ ~FlattenCall(file_content.data.list[rec_i + 1],
                    file_frequency, file_plan_id).ok
    /\ returned' = [rows |-> csv_records, count |-> rec_i]
    /\ p_pc' = "failed"
    /\ UNCHANGED <<json_file_path, file_content, file_frequency, file_plan_id,
                   warned, rec_i, csv_records, original_record_count>>
    /\ UNCHANGED notFile

\* Line 150 raises: except branch, return [], 0
FlattenNextRaise ==
    /\ p_pc = "records"
    /\ rec_i < Len(file_content.data.list)
    /\ ~FlattenCall(file_content.data.list[rec_i + 1],
                    file_frequency, file_plan_id).ok
    /\ returned' = [rows |-> <<>>, count |-> 0]
    /\ p_pc' = "failed"
    /\ UNCHANGED <<json_file_path, file_content, file_frequency, file_plan_id,
                   warned, rec_i, csv_records, original_record_count>>
    /\ UNCHANGED notFile

\* Lines 153-154
ReturnRecords ==
    /\ p_pc = "records"
    /\ rec_i = Len(file_content.data.list)
    /\ returned' = [rows |-> csv_records, count |-> original_record_count]
    /\ p_pc' = "returned"
    /\ UNCHANGED <<json_file_path, file_content, file_frequency, file_plan_id,
                   warned, rec_i, csv_records, original_record_count>>
    /\ UNCHANGED notFile

NextFile ==
    \/ ExtractMetadata
    \/ LoadRaise
    \/ Load
    \/ FlattenNext
    \/ FlattenNextRaise
    \/ ReturnRecords

SpecFile == InitFile /\ [][NextFile]_vars

\* ---- C8 ----------------------------------------------------------------
\* Sum over the records of max(1, number of requestOwners).
RECURSIVE ExpectedRowCount(_)
ExpectedRowCount(recs) ==
    IF recs = <<>> THEN 0
    ELSE Max(1, NumOwners(recs[1])) + ExpectedRowCount(Tail(recs))

\* C8: per-file row count. When process_json_file gets through a file
\* (it returns from the try block), the number of rows it returns is the
\* sum over the file's records of max(1, number of requestOwners), and the
\* record count it returns is the number of records of the file.
C8_PerFileRowCount ==
    p_pc = "returned" =>
        /\ Len(returned.rows) = ExpectedRowCount(file_content.data.list)
        /\ returned.count = Len(file_content.data.list)

C8_Witness ==
    /\ p_pc = "returned"
    /\ \E i, j \in 1..Len(file_content.data.list) :
          /\ NumOwners(file_content.data.list[i]) = 0
          /\ NumOwners(file_content.data.list[j]) = 2
    /\ Len(returned.rows) = 3
    /\ returned.count = 2

\* ---- C10 ---------------------------------------------------------------
\* The name has the form <letters>-<digits>.json, with a letters and b
\* digits.
HasForm(name, a, b) ==
    /\ Len(name) = a + 1 + b + Len(DotJson)
    /\ \A i \in 1..a : name[i] \in Letters
    /\ name[a + 1] = "-"
    /\ \A i \in (a + 2)..(a + 1 + b) : name[i] \in Digits
    /\ SubSeq(name, a + b + 2, Len(name)) = DotJson

MatchesPattern(name) ==
    \E a, b \in 1..Len(name) : HasForm(name, a, b)

\* C10: a malformed filename is not fatal. For a file whose name does not
\* match <letters>-<digits>.json the metadata is (None, None), every record
\* of the file is still flattened, and every row has collection_frequency
\* and hourly_collection_plan_id null; for a matching name the metadata is
\* (letters, integer value of digits).
C10_MalformedFilenameNonFatal ==
    p_pc # "start" =>
        LET name == Basename(json_file_path)
        IN  /\ ~MatchesPattern(name) =>
                  /\ file_frequency = Null
                  /\ file_plan_id = Null
                  /\ warned
                  /\ p_pc = "returned" =>
                        /\ Len(returned.rows)
                              = ExpectedRowCount(file_content.data.list)
                        /\ \A i \in 1..Len(returned.rows) :
                              /\ Lookup(returned.rows[i], "collection_frequency") = Null
                              /\ Lookup(returned.rows[i], "hourly_collection_plan_id")
                                    = Null
            /\ \A a, b \in 1..Len(name) :
                  HasForm(name, a, b) =>
                      /\ file_frequency = S(Join(SubSeq(name, 1, a)))
                      /\ file_plan_id = I(IntOf(SubSeq(name, a + 2, a + 1 + b)))

\* The same statement for the names that do not end in a newline: it holds
\* for all of them.
C10_ExceptTrailingNewline ==
    LET name == Basename(json_file_path)
    IN  (name # <<>> /\ name[Len(name)] = "\n") \/ C10_MalformedFilenameNonFatal

\* ========================================================================
\* combine_all_data.py: combine_all_data
\* ========================================================================

\* a < b as Python compares strings
RECURSIVE LexLess(_, _)
LexLess(a, b) ==
    IF a = <<>> THEN b # <<>>
    ELSE IF b = <<>> THEN FALSE
    ELSE IF a[1] = b[1] THEN LexLess(Tail(a), Tail(b))
    ELSE CharCode(a[1]) < CharCode(b[1])

\* sorted(paths)
Sorted(paths) ==
    CHOOSE sq \in [1..Cardinality(paths) -> paths] :
        \A i, j \in 1..Cardinality(paths) : i < j => LexLess(sq[i], sq[j])

\* glob.glob(os.path.join(json_dir, "*.json")): the paths whose name ends
\* in .json and does not start with a dot.
Glob(dir) ==
    {f.path : f \in {g \in dir :
        LET name == Basename(g.path)
        IN  /\ Len(name) >= Len(DotJson)
            /\ SubSeq(name, Len(name) - Len(DotJson) + 1, Len(name)) = DotJson
            /\ name[1] # "."}}

ContentOf(dir, path) == (CHOOSE f \in dir : f.path = path).content

\* Lines 184-188: the statistics after a file with rows.
UpdateStats(stats, freq, count, nrows) ==
    LET old == GetOr(stats, freq,
                     [files |-> 0, original_records |-> 0, flattened_rows |-> 0])
    IN  Put(stats, freq,
            [files |-> old.files + 1,
             original_records |-> old.original_records + count,
             flattened_rows |-> old.flattened_rows + nrows])

\* The columns of pd.DataFrame(rows): the keys of the rows, in the order
\* they first appear.
RECURSIVE ColumnsOf(_)
ColumnsOf(rows) ==
    IF rows = <<>> THEN <<>>
    ELSE LET before == ColumnsOf(SubSeq(rows, 1, Len(rows) - 1))
             last == rows[Len(rows)]
         IN  before \o SelectSeq([i \in 1..Len(last) |-> last[i][1]],
                                 LAMBDA c : c \notin Range(before))

\* pd.DataFrame(all_records): every row over all the columns, a missing
\* value where the row has no such key (written as an empty field, like
\* None).
DataFrame(rows) ==
    LET cols == ColumnsOf(rows)
    IN  [i \in 1..Len(rows) |->
            [j \in 1..Len(cols) |-> <<cols[j], GetOr(rows[i], cols[j], Null)>>]]

\* ---- the directories combine_all_data is run on -------------------------
JsonPaths ==
    { <<"s", "3", "/", "a", "d", "h", "o", "c", "-", "4", "3", "8", ".", "j", "s", "o", "n">>,
      <<"s", "3", "/", "d", "a", "i", "l", "y", "-", "4", "2", "9", ".", "j", "s", "o", "n">>,
      <<"s", "3", "/", "d", "a", "i", "l", "y", "-", "4", "3", "0", ".", "j", "s", "o", "n">>,
      <<"s", "3", "/", "d", "a", "i", "l", "y", "4", "2", "9", ".", "j", "s", "o", "n">> }

GzPath == <<"s", "3", "/", "d", "a", "i", "l", "y", "-", "4", "3", "1", ".", "j", "s", "o", "n", ".", "g", "z">>

DirContents ==
    { Unreadable,
      [readable |-> TRUE, data |-> L(<<>>)],
      [readable |-> TRUE, data |-> L(<<RecordOneOwner>>)],
      [readable |-> TRUE, data |-> L(<<RecordNoOwners, RecordTwoOwners>>)],
      [readable |-> TRUE, data |-> L(<<RecordTwoOwners, RecordBadBlock>>)] }

Directories ==
    UNION {
        {{[path |-> q, content |-> assign[q]] : q \in paths} :
            assign \in [paths -> DirContents]} :
        paths \in {ps \in SUBSET (JsonPaths \cup {GzPath}) :
                      Cardinality(ps \cap JsonPaths) <= MaxFiles}}

InitCombine ==
    /\ GroupIdle
    /\ FlatIdle
    /\ FileIdle
    /\ TimeIdle
    /\ DownloadIdle
    /\ DecompressIdle
    /\ ParquetNameIdle
    /\ GanttIdle
    /\ LaunchIdle
    /\ c_pc = "start"
    /\ json_dir \in Directories
    /\ json_files = <<>>
    /\ file_i = 0
    /\ all_records = <<>>
    /\ file_stats = <<>>
    /\ processed = <<>>
    /\ output_file = [written |-> FALSE, rows |-> <<>>]

\* Lines 165-169: no JSON file, return
NoJsonFiles ==
    /\ c_pc = "start"
    /\ Glob(json_dir) = {}
    /\ c_pc' = "no_files"
    /\ UNCHANGED <<json_dir, json_files, file_i, all_records, file_stats,
                   processed, output_file>>
    /\ UNCHANGED notCombine

\* Lines 165-177
StartLoop ==
    /\ c_pc = "start"
    /\ Glob(json_dir) # {}
    /\ json_files' = Sorted(Glob(json_dir))
    /\ all_records' = <<>>
    /\ file_stats' = <<>>
    /\ file_i' = 0
    /\ c_pc' = "loop"
    /\ UNCHANGED <<json_dir, processed, output_file>>
    /\ UNCHANGED notCombine

\* Lines 177-188 for a file process_json_file returns rows for
ProcessFileWithRows ==
    /\ c_pc = "loop"
    /\ file_i < Len(json_files)
    /\ LET json_file == json_files[file_i + 1]
           res == ProcessJsonFile(json_file, ContentOf(json_dir, json_file))
       IN  /\ res.rows # <<>>
           /\ processed' = Append(processed, res)
           /\ all_records' = all_records \o res.rows
           /\ file_stats' =
                 UpdateStats(file_stats,
                             ExtractMetadataFromFilename(Basename(json_file))[1],
                             res.count, Len(res.rows))
    /\ file_i' = file_i + 1
    /\ UNCHANGED <<c_pc, json_dir, json_files, output_file>>
    /\ UNCHANGED notCombine

\* Lines 177-179 with the loop left at a file without rows.
ProcessFileNoRowsAbort ==
    /\ c_pc = "loop"
    /\ file_i < Len(json_files)
    /\ LET json_file == json_files[file_i + 1]
           res == ProcessJsonFile(json_file, ContentOf(json_dir, json_file))
       IN  /\ res.rows = <<>>
           /\ processed' = Append(processed, res)
    /\ file_i' = Len(json_files)
    /\ UNCHANGED <<c_pc, json_dir, json_files, all_records, file_stats, output_file>>
    /\ UNCHANGED notCombine

\* Lines 177-179 for a file process_json_file returns [] for: nothing is
\* added, the loop goes on
ProcessFileNoRows ==
    /\ c_pc = "loop"
    /\ file_i < Len(json_files)
    /\ LET json_file == json_files[file_i + 1]
           res == ProcessJsonFile(json_file, ContentOf(json_dir, json_file))
       IN  /\ res.rows = <<>>
           /\ processed' = Append(processed, res)
    /\ file_i' = file_i + 1
    /\ UNCHANGED <<c_pc, json_dir, json_files, all_records, file_stats, output_file>>
    /\ UNCHANGED notCombine

\* Lines 190-192: no row at all, return without writing
NoRecords ==
    /\ c_pc = "loop"
    /\ file_i = Len(json_files)
    /\ all_records = <<>>
    /\ c_pc' = "no_records"
    /\ UNCHANGED <<json_dir, json_files, file_i, all_records, file_stats,
                   processed, output_file>>
    /\ UNCHANGED notCombine

\* Lines 196-199
WriteCombined ==
    /\ c_pc = "loop"
    /\ file_i = Len(json_files)
    /\ all_records # <<>>
    /\ output_file' = [written |-> TRUE, rows |-> DataFrame(all_records)]
    /\ c_pc' = "done"
    /\ UNCHANGED <<json_dir, json_files, file_i, all_records, file_stats,
                   processed>>
    /\ UNCHANGED notCombine

NextCombine ==
    \/ NoJsonFiles
    \/ StartLoop
    \/ ProcessFileWithRows
    \/ ProcessFileNoRows
    \/ NoRecords
    \/ WriteCombined

SpecCombine == InitCombine /\ [][NextCombine]_vars

\* ---- C9 ----------------------------------------------------------------
\* The file parses: it can be read, holds a list, and no record of it makes
\* flatten_record raise.
Parses(content) ==
    /\ content.readable
    /\ IsList(content.data)
    /\ \A i \in 1..Len(content.data.list) :
          /\ ~BaseRaises(content.data.list[i])
          /\ \A k \in 1..NumOwners(content.data.list[i]) :
                ~OwnerRaises(Owners(content.data.list[i])[k])

\* The rows a file contributes: those of its records in order if it
\* parses, none otherwise.
RowsOfFile(path, content) ==
    IF ~Parses(content) THEN <<>>
    ELSE LET meta == ExtractMetadataFromFilename(Basename(path))
         IN  Concat([i \in 1..Len(content.data.list) |->
                        FlattenRecord(content.data.list[i], meta[1], meta[2]).rows])

\* A row of the written dataset holds the values of the collected row.
SameValues(written, row) ==
    \A c \in Keys(written) : Lookup(written, c) = GetOr(row, c, Null)

\* C9: parse-failure isolation. Whatever files fail to parse,
\* combine_all_data processes every file of the directory, the combined
\* dataset holds exactly the rows of the files that parsed (in file order),
\* and a failing file is returned as ([], 0): zero rows.
C9_ParseFailureIsolation ==
    c_pc \in {"done", "no_records"} =>
        /\ file_i = Len(json_files)
        /\ Len(processed) = Len(json_files)
        /\ all_records =
              Concat([i \in 1..Len(json_files) |->
                         RowsOfFile(json_files[i], ContentOf(json_dir, json_files[i]))])
        /\ \A i \in 1..Len(json_files) :
              ~Parses(ContentOf(json_dir, json_files[i])) =>
                  processed[i] = [rows |-> <<>>, count |-> 0]
        /\ c_pc = "done" =>
              /\ Len(output_file.rows) = Len(all_records)
              /\ \A i \in 1..Len(all_records) :
                    /\ Keys(all_records[i]) \subseteq Keys(output_file.rows[i])
                    /\ SameValues(output_file.rows[i], all_records[i])

C9_Witness ==
    /\ c_pc = "done"
    /\ Len(json_files) >= 2
    /\ ~Parses(ContentOf(json_dir, json_files[1]))
    /\ Parses(ContentOf(json_dir, json_files[2]))
    /\ processed[1].rows = <<>>
    /\ all_records # <<>>
    /\ all_records = processed[2].rows

\* ========================================================================
\* analyze_autoscheduler_outputs.py / streamlit_scheduler_explorer.py:
\* the functions over packed times
\* ========================================================================

\* A str as its characters
Str(cs) == [chars |-> cs]

\* pd.isna(value) on a scalar: None and NaN
IsNa(v) == IsNull(v)

\* int(value) of a number that is whole (an int, or a float such as 559.0
\* that pandas gives for a column holding NaN)
PyInt(v) == v.int

\* str of a non-negative int
RECURSIVE DecimalDigits(_)
DecimalDigits(n) ==
    IF n < 10 THEN <<DigitChars[n + 1]>>
    ELSE DecimalDigits(n \div 10) \o <<DigitChars[(n % 10) + 1]>>

\* f"{n:02d}": the sign, then zeros up to a total width of 2, then the digits
Format02d(n) ==
    LET sign == IF n < 0 THEN <<"-">> ELSE <<>>
        digs == DecimalDigits(IF n < 0 THEN -n ELSE n)
        fill == IF Len(sign) + Len(digs) < 2 THEN <<"0">> ELSE <<>>
    IN  sign \o fill \o digs

\* convert_time_to_hour_minute of analyze_autoscheduler_outputs.py
ConvertTimeToHourMinute(v) ==
    IF IsNa(v) THEN Null
    ELSE LET time_int == PyInt(v)
             hours == time_int \div 100
             minutes == time_int % 100
         IN  IF hours > 23 \/ minutes > 59 THEN Null
             ELSE Str(Format02d(hours) \o <<":">> \o Format02d(minutes))

\* convert_time_to_hour_minute of streamlit_scheduler_explorer.py.
\* ConvertTimeToHourMinuteUnpadded is the copy with the hour written
\* without its width.
ConvertTimeToHourMinuteUnpadded(v) ==
    IF IsNa(v) THEN Null
    ELSE LET time_int == PyInt(v)
             hours == time_int \div 100
             minutes == time_int % 100
         IN  IF hours > 23 \/ minutes > 59 THEN Null
             ELSE Str((IF hours < 0 THEN <<"-">> ELSE <<>>)
                      \o DecimalDigits(IF hours < 0 THEN -hours ELSE hours)
                      \o <<":">> \o Format02d(minutes))

ConvertTimeToHourMinuteDashboard(v) ==
    IF IsNa(v) THEN Null
    ELSE LET time_int == PyInt(v)
             hours == time_int \div 100
             minutes == time_int % 100
         IN  IF hours > 23 \/ minutes > 59 THEN Null
             ELSE Str(Format02d(hours) \o <<":">> \o Format02d(minutes))

\* get_time_category.  GetTimeCategoryInclusive is the chain with <= at
\* the upper end of each window.
GetTimeCategoryInclusive(v) ==
    IF IsNa(v) THEN S("Unknown")
    ELSE LET hours == PyInt(v) \div 100
         IN  IF 0 <= hours /\ hours <= 6 THEN S("Early Morning (00-06)")
             ELSE IF 6 <= hours /\ hours <= 12 THEN S("Morning (06-12)")
             ELSE IF 12 <= hours /\ hours <= 18 THEN S("Afternoon (12-18)")
             ELSE IF 18 <= hours /\ hours <= 24 THEN S("Evening (18-24)")
             ELSE S("Invalid Time")

GetTimeCategory(v) ==
    IF IsNa(v) THEN S("Unknown")
    ELSE LET hours == PyInt(v) \div 100
         IN  IF 0 <= hours /\ hours < 6 THEN S("Early Morning (00-06)")
             ELSE IF 6 <= hours /\ hours < 12 THEN S("Morning (06-12)")
             ELSE IF 12 <= hours /\ hours < 18 THEN S("Afternoon (12-18)")
             ELSE IF 18 <= hours /\ hours < 24 THEN S("Evening (18-24)")
             ELSE S("Invalid Time")

\* get_hour_from_time.  GetHourFromTimeValidated is the function with the
\* bounds test of convert_time_to_hour_minute put in front of the return.
GetHourFromTimeValidated(v) ==
    IF IsNa(v) THEN Null
    ELSE IF PyInt(v) \div 100 > 23 \/ PyInt(v) % 100 > 59 THEN Null
    ELSE I(PyInt(v) \div 100)

GetHourFromTime(v) ==
    IF IsNa(v) THEN Null
    ELSE I(PyInt(v) \div 100)

\* calc_duration_minutes.  CalcDurationMinutesNoRollover is the function
\* without the rollover branch; CalcDurationMinutesHalfDay adds 12 * 60.
CalcDurationMinutesNoRollover(s, e) ==
    IF IsNa(s) \/ IsNa(e) THEN Null
    ELSE LET start_int == PyInt(s)
             end_int == PyInt(e)
             start_total_minutes == (start_int \div 100) * 60 + (start_int % 100)
             end_total_minutes == (end_int \div 100) * 60 + (end_int % 100)
         IN  I(end_total_minutes - start_total_minutes)

CalcDurationMinutesHalfDay(s, e) ==
    IF IsNa(s) \/ IsNa(e) THEN Null
    ELSE LET start_int == PyInt(s)
             end_int == PyInt(e)
             start_total_minutes == (start_int \div 100) * 60 + (start_int % 100)
             end_total_minutes == (end_int \div 100) * 60 + (end_int % 100)
         IN  IF end_total_minutes < start_total_minutes
             THEN I(end_total_minutes + 12 * 60 - start_total_minutes)
             ELSE I(end_total_minutes - start_total_minutes)

CalcDurationMinutes(s, e) ==
    IF IsNa(s) \/ IsNa(e) THEN Null
    ELSE LET start_int == PyInt(s)
             end_int == PyInt(e)
             start_hours == start_int \div 100
             start_minutes == start_int % 100
             end_hours == end_int \div 100
             end_minutes == end_int % 100
             start_total_minutes == start_hours * 60 + start_minutes
             end_total_minutes == end_hours * 60 + end_minutes
         IN  IF end_total_minutes < start_total_minutes
             THEN I(end_total_minutes + 24 * 60 - start_total_minutes)
             ELSE I(end_total_minutes - start_total_minutes)

\* ---- inputs ------------------------------------------------------------
\* Packed times given to the one-argument functions: every integer from
\* -2:00 up to MaxHours:99, and null.
TimeValues == {Null} \cup {I(n) : n \in (-200)..(MaxHours * 100 + 99)}

\* Packed times given to calc_duration_minutes: every hour from -1 to
\* MaxHours with the minutes below, and null.
DurationMinuteSamples == {0, 1, 30, 59, 60, 99}

DurationValues ==
    {Null} \cup {I(h * 100 + m) : h \in (-1)..MaxHours, m \in DurationMinuteSamples}

OneArgumentFunctions ==
    {"convert_time_to_hour_minute", "convert_time_to_hour_minute_dashboard",
     "get_time_category", "get_hour_from_time"}

InitTime ==
    /\ t_pc = "call"
    /\ t_fn \in OneArgumentFunctions \cup {"calc_duration_minutes"}
    /\ time_value \in (IF t_fn \in OneArgumentFunctions THEN TimeValues ELSE {Null})
    /\ start_time \in (IF t_fn = "calc_duration_minutes" THEN DurationValues ELSE {Null})
    /\ end_time \in (IF t_fn = "calc_duration_minutes" THEN DurationValues ELSE {Null})
    /\ t_result = Null
    /\ GroupIdle
    /\ FlatIdle
    /\ FileIdle
    /\ CombineIdle
    /\ DownloadIdle
    /\ DecompressIdle
    /\ ParquetNameIdle
    /\ GanttIdle
    /\ LaunchIdle

CallConvertTimeToHourMinute ==
    /\ t_pc = "call"
    /\ t_fn = "convert_time_to_hour_minute"
    /\ t_result' = ConvertTimeToHourMinute(time_value)
    /\ t_pc' = "returned"
    /\ UNCHANGED <<t_fn, time_value, start_time, end_time>>
    /\ UNCHANGED notTime

CallConvertTimeToHourMinuteDashboard ==
    /\ t_pc = "call"
    /\ t_fn = "convert_time_to_hour_minute_dashboard"
    /\ t_result' = ConvertTimeToHourMinuteDashboard(time_value)
    /\ t_pc' = "returned"
    /\ UNCHANGED <<t_fn, time_value, start_time, end_time>>
    /\ UNCHANGED notTime

CallGetTimeCategory ==
    /\ t_pc = "call"
    /\ t_fn = "get_time_category"
    /\ t_result' = GetTimeCategory(time_value)
    /\ t_pc' = "returned"
    /\ UNCHANGED <<t_fn, time_value, start_time, end_time>>
    /\ UNCHANGED notTime

CallGetHourFromTime ==
    /\ t_pc = "call"
    /\ t_fn = "get_hour_from_time"
    /\ t_result' = GetHourFromTime(time_value)
    /\ t_pc' = "returned"
    /\ UNCHANGED <<t_fn, time_value, start_time, end_time>>
    /\ UNCHANGED notTime

CallCalcDurationMinutes ==
    /\ t_pc = "call"
    /\ t_fn = "calc_duration_minutes"
    /\ t_result' = CalcDurationMinutes(start_time, end_time)
    /\ t_pc' = "returned"
    /\ UNCHANGED <<t_fn, time_value, start_time, end_time>>
    /\ UNCHANGED notTime

NextTime ==
    \/ CallConvertTimeToHourMinute
    \/ CallConvertTimeToHourMinuteDashboard
    \/ CallGetTimeCategory
    \/ CallGetHourFromTime
    \/ CallCalcDurationMinutes

SpecTime == InitTime /\ [][NextTime]_vars

\* A packed time with hours in 0..23 and minutes in 0..59
ValidPackedTime(v) ==
    IF IsNull(v) THEN FALSE
    ELSE /\ v.int \div 100 \in 0..23
         /\ v.int % 100 \in 0..59

\* Minutes since midnight of a packed time
MinutesOf(v) == (v.int \div 100) * 60 + (v.int % 100)

DurationReturned == t_pc = "returned" /\ t_fn = "calc_duration_minutes"

\* ---- C13 ---------------------------------------------------------------
\* C13: duration with single rollover. For valid packed times start and
\* end, calc_duration_minutes returns end - start in minutes when end is
\* not before start and end + 1440 - start otherwise: a value in 0..1439
\* that, added to start, gives end modulo one day. (2330, 30) gives 60 and
\* (800, 1700) gives 540. If either argument is null the result is null.
C13_DurationSingleRollover ==
    DurationReturned =>
        /\ (IsNull(start_time) \/ IsNull(end_time)) => t_result = Null
        /\ (ValidPackedTime(start_time) /\ ValidPackedTime(end_time)) =>
              LET sm == MinutesOf(start_time)
                  em == MinutesOf(end_time)
              IN  /\ t_result = I(IF em >= sm THEN em - sm ELSE em + 1440 - sm)
                  /\ t_result.int \in 0..1439
                  /\ (sm + t_result.int) % 1440 = em
        /\ (start_time = I(2330) /\ end_time = I(30)) => t_result = I(60)
        /\ (start_time = I(800) /\ end_time = I(1700)) => t_result = I(540)

C13_Witness ==
    /\ DurationReturned
    /\ start_time = I(2330)
    /\ end_time = I(30)
    /\ t_result = I(60)

\* ---- C14 ---------------------------------------------------------------
\* C14: time categorisation is total and bucketed by hour. Null gives
\* "Unknown"; every integer t gives the one label of its hour t div 100:
\* Early Morning for 0..5, Morning for 6..11, Afternoon for 12..17, Evening
\* for 18..23 and "Invalid Time" for every other hour, never "Unknown".
\* 0 and 559 are Early Morning, 600 Morning, 1759 Afternoon, 1800 Evening.
C14_TimeCategorisation ==
    (t_pc = "returned" /\ t_fn = "get_time_category") =>
        /\ IsNull(time_value) => t_result = S("Unknown")
        /\ ~IsNull(time_value) =>
              LET h == time_value.int \div 100
              IN  /\ t_result # S("Unknown")
                  /\ t_result =
                        CASE h \in 0..5 -> S("Early Morning (00-06)")
                          [] h \in 6..11 -> S("Morning (06-12)")
                          [] h \in 12..17 -> S("Afternoon (12-18)")
                          [] h \in 18..23 -> S("Evening (18-24)")
                          [] OTHER -> S("Invalid Time")
        /\ time_value \in {I(0), I(559)} => t_result = S("Early Morning (00-06)")
        /\ time_value = I(600) => t_result = S("Morning (06-12)")
        /\ time_value = I(1759) => t_result = S("Afternoon (12-18)")
        /\ time_value = I(1800) => t_result = S("Evening (18-24)")

C14_Witness ==
    /\ t_pc = "returned"
    /\ t_fn = "get_time_category"
    /\ time_value = I(600)
    /\ t_result = S("Morning (06-12)")

\* ---- C15 ---------------------------------------------------------------
\* cs is the decimal numeral of n
RECURSIVE Numeral(_, _)
Numeral(cs, n) ==
    IF cs = <<>> THEN FALSE
    ELSE IF n < 0 THEN cs[1] = "-" /\ Numeral(Tail(cs), -n)
    ELSE /\ \A i \in 1..Len(cs) : cs[i] \in Digits
         /\ IntOf(cs) = n

\* cs is n written with zeros in front up to a width of two characters
ZeroPadded(cs, n) ==
    /\ Numeral(cs, n)
    /\ Len(cs) >= 2
    /\ Len(cs) > 2 => cs[IF n < 0 THEN 2 ELSE 1] # "0"

\* C15: format validation. convert_time_to_hour_minute returns null
\* exactly when t is null or t div 100 > 23 or t mod 100 > 59 (2460 and
\* 2450 give null); otherwise it returns HH:MM, HH being t div 100 and MM
\* being t mod 100, each zero-padded (1259 gives "12:59"). The copy of the
\* analysis script and the copy of the dashboard return the same result.
C15_FormatValidation ==
    (t_pc = "returned" /\ t_fn \in {"convert_time_to_hour_minute",
                                    "convert_time_to_hour_minute_dashboard"}) =>
        LET rejected == IF IsNull(time_value) THEN TRUE
                        ELSE \/ time_value.int \div 100 > 23
                             \/ time_value.int % 100 > 59
        IN  /\ rejected <=> t_result = Null
            /\ ~rejected =>
                  \E k \in 1..Len(t_result.chars) :
                      /\ t_result.chars[k] = ":"
                      /\ ZeroPadded(SubSeq(t_result.chars, 1, k - 1),
                                    time_value.int \div 100)
                      /\ ZeroPadded(SubSeq(t_result.chars, k + 1, Len(t_result.chars)),
                                    time_value.int % 100)
            /\ time_value \in {I(2460), I(2450)} => t_result = Null
            /\ time_value = I(1259) => t_result = Str(<<"1", "2", ":", "5", "9">>)
            /\ t_result = (IF t_fn = "convert_time_to_hour_minute"
                           THEN ConvertTimeToHourMinuteDashboard(time_value)
                           ELSE ConvertTimeToHourMinute(time_value))

C15_Witness ==
    /\ t_pc = "returned"
    /\ t_fn = "convert_time_to_hour_minute_dashboard"
    /\ time_value = I(905)
    /\ t_result = Str(<<"0", "9", ":", "0", "5">>)

\* ---- C16 ---------------------------------------------------------------
\* C16 as claimed: duration is never negative. For every pair of non-null
\* packed-time integers, out-of-range values included, the value returned
\* by calc_duration_minutes is >= 0.
C16_DurationNeverNegative ==
    (DurationReturned /\ ~IsNull(start_time) /\ ~IsNull(end_time)) =>
        t_result.int >= 0

\* C16 as amended: the value returned is >= 0 exactly when start, in
\* minutes, exceeds end, in minutes, by at most 1440; this covers every
\* pair of valid packed times. Beyond that (out-of-range values only) the
\* one rollover does not make up the difference and the value is negative.
C16_NonNegativeWithinOneRollover ==
    (DurationReturned /\ ~IsNull(start_time) /\ ~IsNull(end_time)) =>
        /\ t_result.int >= 0 <=>
              MinutesOf(start_time) - MinutesOf(end_time) <= 1440
        /\ (ValidPackedTime(start_time) /\ ValidPackedTime(end_time)) =>
              t_result.int >= 0

C16_Witness ==
    /\ DurationReturned
    /\ start_time = I(2459)
    /\ end_time = I(100)
    /\ t_result = I(1)

\* ========================================================================
\* download_from_s3.py / download_parquet_from_s3.py: download_repository
\* ========================================================================

\* Paths and keys are sequences of components, "/" between them; a key that
\* ends in "/" has "" as its last component.
prefix == <<"v1", "10">>

local_root == <<".", "s3_repo">>

\* The keys under the prefix, in the order list_objects_v2 returns keys
\* (ascending): v1/10/, v1/10/a, v1/10/a/b, v1/10/c, v1/10/d/
BucketKeys ==
    <<prefix \o <<"">>, prefix \o <<"a">>, prefix \o <<"a", "b">>,
      prefix \o <<"c">>, prefix \o <<"d", "">>>>

\* The listings: the keys of any MaxObjects or fewer of them, kept in order
Listings ==
    {[i \in 1..Len(sel) |-> BucketKeys[sel[i]]] :
        sel \in {s \in UNION {[1..n -> 1..Len(BucketKeys)] : n \in 0..MaxObjects} :
                    \A i, j \in 1..Len(s) : i < j => s[i] < s[j]}}

\* key.startswith(prefix)
StartsWith(key, pre) ==
    /\ Len(key) >= Len(pre)
    /\ SubSeq(key, 1, Len(pre)) = pre

\* key.endswith('/')
EndsWithSlash(key) == key # <<>> /\ key[Len(key)] = ""

\* rel_path = key[len(prefix):] if key.startswith(prefix) else key
RelPath(key) ==
    IF StartsWith(key, prefix) THEN SubSeq(key, Len(prefix) + 1, Len(key)) ELSE key

\* local_path = os.path.join(local_root, rel_path)
LocalPath(key) == local_root \o RelPath(key)

\* os.path.dirname(path)
Dirname(path) == SubSeq(path, 1, Len(path) - 1)

\* os.path.abspath(path): the working directory in front, "." and a
\* trailing "/" dropped
AbsPath(path) ==
    <<"", "cwd">> \o SelectSeq(path, LAMBDA c : c # "." /\ c # "")

\* The directories os.makedirs(path) needs: path and the directories above
Ancestors(path) == {SubSeq(path, 1, n) : n \in 1..Len(path)}

\* os.makedirs(path, exist_ok=True) raises when path, or a directory above
\* it, exists as a regular file
MakedirsRaises(path, files) == Ancestors(path) \cap files # {}

\* s3.download_file(bucket, key, local_path) cannot write to a path that
\* names a directory
TargetIsDirectory(path, dirs) == EndsWithSlash(path) \/ path \in dirs

DownloadIdleTransfers(keys) == [i \in 1..Len(keys) |-> <<>>]

InitDownload ==
    /\ d_pc = "start"
    /\ d_script \in {"json", "parquet"}
    /\ listing \in Listings
    /\ obj_i = 0
    /\ local_files = {}
    /\ local_dirs = {}
    /\ transfers = DownloadIdleTransfers(listing)
    /\ downloaded = <<>>
    /\ GroupIdle
    /\ FlatIdle
    /\ FileIdle
    /\ CombineIdle
    /\ TimeIdle
    /\ DecompressIdle
    /\ ParquetNameIdle
    /\ GanttIdle
    /\ LaunchIdle

\* downloaded = []; os.makedirs(local_root, exist_ok=True)
StartDownload ==
    /\ d_pc = "start"
    /\ downloaded' = <<>>
    /\ local_dirs' = Ancestors(local_root)
    /\ d_pc' = "loop"
    /\ UNCHANGED <<d_script, listing, obj_i, local_files, transfers>>
    /\ UNCHANGED notDownload

\* download_parquet_from_s3.py: if key.endswith('/'): continue
SkipFolderKey ==
    /\ d_pc = "loop"
    /\ obj_i < Len(listing)
    /\ d_script = "parquet"
    /\ EndsWithSlash(listing[obj_i + 1])
    /\ obj_i' = obj_i + 1
    /\ UNCHANGED <<d_pc, d_script, listing, local_files, local_dirs, transfers,
                   downloaded>>
    /\ UNCHANGED notDownload

\* The key is downloaded (not skipped as a folder)
Fetched(key) == d_script = "json" \/ ~EndsWithSlash(key)

\* os.makedirs(os.path.dirname(local_path), exist_ok=True) raises: it is
\* outside the try statement, so the exception leaves download_repository.
MakedirsRaise ==
    /\ d_pc = "loop"
    /\ obj_i < Len(listing)
    /\ Fetched(listing[obj_i + 1])
    /\ MakedirsRaises(Dirname(LocalPath(listing[obj_i + 1])), local_files)
    /\ d_pc' = "raised"
    /\ UNCHANGED <<d_script, listing, obj_i, local_files, local_dirs, transfers,
                   downloaded>>
    /\ UNCHANGED notDownload

\* makedirs, then s3.download_file succeeds: the path is appended.
DownloadObject ==
    /\ d_pc = "loop"
    /\ obj_i < Len(listing)
    /\ Fetched(listing[obj_i + 1])
    /\ LET local_path == LocalPath(listing[obj_i + 1])
       IN  /\ ~MakedirsRaises(Dirname(local_path), local_files)
           /\ ~TargetIsDirectory(local_path,
                                 local_dirs \cup Ancestors(Dirname(local_path)))
           /\ local_dirs' = local_dirs \cup Ancestors(Dirname(local_path))
           /\ local_files' = local_files \cup {local_path}
           /\ downloaded' = Append(downloaded, AbsPath(local_path))
    /\ transfers' = [transfers EXCEPT ![obj_i + 1] = Append(@, "ok")]
    /\ obj_i' = obj_i + 1
    /\ UNCHANGED <<d_pc, d_script, listing>>
    /\ UNCHANGED notDownload

\* makedirs, then s3.download_file raises (the object is gone, access is
\* denied, the disk is full, the target is a directory): the except branch
\* prints the failure and the loop goes on.
DownloadObjectFails ==
    /\ d_pc = "loop"
    /\ obj_i < Len(listing)
    /\ Fetched(listing[obj_i + 1])
    /\ LET local_path == LocalPath(listing[obj_i + 1])
       IN  /\ ~MakedirsRaises(Dirname(local_path), local_files)
           /\ local_dirs' = local_dirs \cup Ancestors(Dirname(local_path))
    /\ transfers' = [transfers EXCEPT ![obj_i + 1] = Append(@, "failed")]
    /\ obj_i' = obj_i + 1
    /\ UNCHANGED <<d_pc, d_script, listing, local_files, downloaded>>
    /\ UNCHANGED notDownload

\* return downloaded
ReturnDownloaded ==
    /\ d_pc = "loop"
    /\ obj_i = Len(listing)
    /\ d_pc' = "returned"
    /\ UNCHANGED <<d_script, listing, obj_i, local_files, local_dirs, transfers,
                   downloaded>>
    /\ UNCHANGED notDownload

NextDownload ==
    \/ StartDownload
    \/ SkipFolderKey
    \/ MakedirsRaise
    \/ DownloadObject
    \/ DownloadObjectFails
    \/ ReturnDownloaded

SpecDownload == InitDownload /\ [][NextDownload]_vars

\* ---- C17 ---------------------------------------------------------------
\* The local paths of the objects whose download succeeded, in listing
\* order
RECURSIVE SucceededPaths(_, _)
SucceededPaths(keys, outcomes) ==
    IF keys = <<>> THEN <<>>
    ELSE (IF "ok" \in Range(outcomes[1])
          THEN <<AbsPath(LocalPath(keys[1]))>> ELSE <<>>)
         \o SucceededPaths(Tail(keys), Tail(outcomes))

\* C17: download skip-and-continue. When download_repository ends, each
\* listed object has been attempted exactly once, whatever happened to the
\* objects before it, and the list returned holds exactly the local paths
\* of the objects whose download succeeded, in listing order.
C17_DownloadSkipAndContinue ==
    d_pc \in {"returned", "raised"} =>
        /\ d_pc = "returned"
        /\ \A i \in 1..Len(listing) : Len(transfers[i]) = 1
        /\ downloaded = SucceededPaths(listing, transfers)

\* ========================================================================
\* decompress_files.py: decompress_file, decompress_all_files
\* download_from_s3.py: decompress_and_extract_metadata
\* ========================================================================

DotGz == <<".", "g", "z">>

\* s.endswith(suffix)
EndsWith(s, suffix) ==
    /\ Len(s) >= Len(suffix)
    /\ SubSeq(s, Len(s) - Len(suffix) + 1, Len(s)) = suffix

\* s.replace(old, ''): every occurrence of old, found from left to right,
\* is taken out
RECURSIVE RemoveAll(_, _)
RemoveAll(s, old) ==
    IF Len(s) < Len(old) THEN s
    ELSE IF SubSeq(s, 1, Len(old)) = old
         THEN RemoveAll(SubSeq(s, Len(old) + 1, Len(s)), old)
         ELSE <<s[1]>> \o RemoveAll(Tail(s), old)

\* json_file_path = gz_file_path.replace('.gz', '')
JsonFilePath(gz_file_path) == RemoveAll(gz_file_path, DotGz)

\* re.match(r'([a-zA-Z]+)-(\d+)\.json\.gz$', filename) of a name that ends
\* in .json.gz
MatchesGzPattern(filename) ==
    LET a == RunLength(filename, 1, Letters)
        b == RunLength(filename, a + 2, Digits)
    IN  /\ a >= 1
        /\ Len(filename) >= a + 1
        /\ filename[a + 1] = "-"
        /\ b >= 1
        /\ SubSeq(filename, a + 2 + b, Len(filename)) = DotJson \o DotGz

\* os.path.dirname(path) of a path given by its characters
DirnameOf(path) ==
    SubSeq(path, 1, Len(path) - Len(Basename(path)) - 1)

\* The loop decompresses the path: decompress_all_files takes every path
\* of its glob; decompress_and_extract_metadata skips the paths that do not
\* end in .json.gz or whose name does not match the pattern.
Decompressed(path) ==
    IF z_script = "decompress_files" THEN TRUE
    ELSE EndsWith(path, DotJson \o DotGz) /\ MatchesGzPattern(Basename(path))

\* The try block raises: open(json_file_path, 'w') when the directory of
\* the target does not exist, f_in.read() when the file is not gzip data.
DecompressRaises(path, content, dirs) ==
    IF DirnameOf(JsonFilePath(path)) \notin dirs THEN TRUE
    ELSE content = "corrupt"

\* The files after f_out.write(f_in.read()) or after the exception: the
\* target holds the text of the source, or is left empty when read() failed
\* after the target was opened.
WriteTarget(files, path, content, dirs) ==
    LET target == JsonFilePath(path)
    IN  IF DirnameOf(target) \notin dirs THEN files
        ELSE {f \in files : f.path # target}
             \cup {[path |-> target,
                    text |-> IF content = "corrupt" THEN <<>> ELSE path]}

\* ---- inputs ------------------------------------------------------------
Chars(token) ==
    CASE token = "s3" -> <<"s", "3">>
      [] token = "s3.gz" -> <<"s", "3">> \o DotGz
      [] token = "d-1" -> <<"d", "-", "1">>
      [] token = "d-2" -> <<"d", "-", "2">>
      [] token = "d1" -> <<"d", "1">>
      [] token = "d.gz-1" -> <<"d">> \o DotGz \o <<"-", "1">>

GzDirectories == {Chars("s3"), Chars("s3.gz")}

\* Names found in the directory: d-1.json.gz, d-2.json.gz, d.gz-1.json.gz,
\* d1.json.gz, d-1.gz and d-1.json
GzNames ==
    {Chars(tok) \o DotJson \o DotGz : tok \in {"d-1", "d-2", "d.gz-1", "d1"}}
    \cup {Chars("d-1") \o DotGz, Chars("d-1") \o DotJson}

GzDirContents(dir) ==
    {fs \in SUBSET [path : {dir \o <<"/">> \o n : n \in GzNames},
                    content : {"text", "corrupt"}] :
        /\ Cardinality(fs) <= MaxGzFiles
        /\ \A f, g \in fs : f.path = g.path => f = g}

InitDecompress ==
    /\ z_pc = "start"
    /\ z_script \in {"decompress_files", "download_from_s3"}
    /\ source_dir \in GzDirectories
    /\ gz_dir \in GzDirContents(source_dir)
    /\ z_dirs \in {ds \in SUBSET GzDirectories : source_dir \in ds}
    /\ gz_files = <<>>
    /\ gz_i = 0
    /\ z_files = {}
    /\ decompressed_files = <<>>
    /\ GroupIdle
    /\ FlatIdle
    /\ FileIdle
    /\ CombineIdle
    /\ TimeIdle
    /\ DownloadIdle
    /\ ParquetNameIdle
    /\ GanttIdle
    /\ LaunchIdle

\* decompress_all_files: gz_files = glob(source_dir/*.json.gz), return []
\* when there is none, else loop over sorted(gz_files).
\* decompress_and_extract_metadata: loop over the list it is given (the
\* downloaded files, in listing order).
StartDecompress ==
    /\ z_pc = "start"
    /\ LET paths == {f.path : f \in gz_dir}
           globbed == {q \in paths : /\ EndsWith(q, DotJson \o DotGz)
                                     /\ Basename(q)[1] # "."}
       IN  IF z_script = "decompress_files"
           THEN /\ gz_files' = Sorted(globbed)
                /\ z_pc' = IF globbed = {} THEN "returned" ELSE "loop"
           ELSE /\ gz_files' = Sorted(paths)
                /\ z_pc' = "loop"
    /\ decompressed_files' = <<>>
    /\ UNCHANGED <<z_script, source_dir, gz_dir, z_dirs, gz_i, z_files>>
    /\ UNCHANGED notDecompress

\* if not gz_file.endswith('.json.gz'): continue / if not match: continue
SkipGzFile ==
    /\ z_pc = "loop"
    /\ gz_i < Len(gz_files)
    /\ ~Decompressed(gz_files[gz_i + 1])
    /\ gz_i' = gz_i + 1
    /\ UNCHANGED <<z_pc, z_script, source_dir, gz_dir, z_dirs, gz_files, z_files,
                   decompressed_files>>
    /\ UNCHANGED notDecompress

\* The file is decompressed and its JSON path appended.
DecompressFile ==
    /\ z_pc = "loop"
    /\ gz_i < Len(gz_files)
    /\ Decompressed(gz_files[gz_i + 1])
    /\ LET path == gz_files[gz_i + 1]
           content == ContentOf(gz_dir, path)
       IN  /\ ~DecompressRaises(path, content, z_dirs)
           /\ z_files' = WriteTarget(z_files, path, content, z_dirs)
           /\ decompressed_files' = Append(decompressed_files, JsonFilePath(path))
    /\ gz_i' = gz_i + 1
    /\ UNCHANGED <<z_pc, z_script, source_dir, gz_dir, z_dirs, gz_files>>
    /\ UNCHANGED notDecompress

\* The try block raises: the failure is printed, nothing is appended and
\* the loop goes on.
DecompressFileFails ==
    /\ z_pc = "loop"
    /\ gz_i < Len(gz_files)
    /\ Decompressed(gz_files[gz_i + 1])
    /\ LET path == gz_files[gz_i + 1]
           content == ContentOf(gz_dir, path)
       IN  /\ DecompressRaises(path, content, z_dirs)
           /\ z_files' = WriteTarget(z_files, path, content, z_dirs)
    /\ gz_i' = gz_i + 1
    /\ UNCHANGED <<z_pc, z_script, source_dir, gz_dir, z_dirs, gz_files,
                   decompressed_files>>
    /\ UNCHANGED notDecompress

\* return decompressed_files
ReturnDecompressed ==
    /\ z_pc = "loop"
    /\ gz_i = Len(gz_files)
    /\ z_pc' = "returned"
    /\ UNCHANGED <<z_script, source_dir, gz_dir, z_dirs, gz_files, gz_i, z_files,
                   decompressed_files>>
    /\ UNCHANGED notDecompress

NextDecompress ==
    \/ StartDecompress
    \/ SkipGzFile
    \/ DecompressFile
    \/ DecompressFileFails
    \/ ReturnDecompressed

SpecDecompress == InitDecompress /\ [][NextDecompress]_vars

\* ---- C18 ---------------------------------------------------------------
\* The path without its last three characters
WithoutGzSuffix(path) == SubSeq(path, 1, Len(path) - Len(DotGz))

\* C18: decompression target path. When the loop has returned, every path
\* of the list has been gone through, and every readable .gz file that the
\* loop decompresses has its text at the path in the same directory that
\* is the input path without its trailing .gz, every other part of the
\* path unchanged; a file that fails does not keep the others from it.
C18_DecompressionTargetPath ==
    z_pc = "returned" =>
        /\ gz_i = Len(gz_files)
        /\ \A i \in 1..Len(gz_files) :
              LET path == gz_files[i]
              IN  (/\ Decompressed(path)
                   /\ EndsWith(path, DotGz)
                   /\ ContentOf(gz_dir, path) = "text") =>
                      [path |-> WithoutGzSuffix(path), text |-> path] \in z_files

\* ========================================================================
\* flatten_record: provider/site renaming, owner rows and parent columns
\* ========================================================================

\* The providerSiteCode block of the record flattened, as its items in
\* order (none when the block is absent)
ProviderSiteItems ==
    IF IsDict(record) /\ "providerSiteCode" \in Keys(record.dict)
    THEN Lookup(record.dict, "providerSiteCode").dict
    ELSE <<>>

\* ---- C19 ---------------------------------------------------------------
\* C19 as claimed: provider/site renaming is positional. In every returned
\* row the provider column holds the first sub-field of providerSiteCode,
\* the site column the second, and every further sub-field k is in column
\* providerSiteCode_k, unchanged.
C19_PositionalRenaming ==
    f_pc = "returned" =>
        \A i \in 1..Len(result_rows) :
            LET row == result_rows[i]
                ps == ProviderSiteItems
            IN  /\ Len(ps) >= 1 =>
                      /\ "provider" \in Keys(row)
                      /\ Lookup(row, "provider") = ps[1][2]
                /\ Len(ps) >= 2 =>
                      /\ "site" \in Keys(row)
                      /\ Lookup(row, "site") = ps[2][2]
                /\ \A k \in 3..Len(ps) :
                      /\ ("providerSiteCode_" \o ps[k][1]) \in Keys(row)
                      /\ Lookup(row, "providerSiteCode_" \o ps[k][1]) = ps[k][2]

\* C19 as amended: provider/site renaming is by sub-field name. In every
\* returned row the sub-field named x is in the provider column and the
\* sub-field named y in the site column, wherever they stand in the block;
\* every other sub-field k is in column providerSiteCode_k, unchanged; the
\* provider (site) column exists only when the block has an x (y).
C19_RenamingByName ==
    f_pc = "returned" =>
        \A i \in 1..Len(result_rows) :
            LET row == result_rows[i]
                ps == ProviderSiteItems
            IN  /\ \A k \in 1..Len(ps) :
                      LET column == CASE ps[k][1] = "x" -> "provider"
                                      [] ps[k][1] = "y" -> "site"
                                      [] OTHER -> "providerSiteCode_" \o ps[k][1]
                      IN  /\ column \in Keys(row)
                          /\ Lookup(row, column) = ps[k][2]
                /\ "provider" \in Keys(row) <=> "x" \in Keys(ps)
                /\ "site" \in Keys(row) <=> "y" \in Keys(ps)

C19_Witness ==
    /\ f_pc = "returned"
    /\ Len(ProviderSiteItems) = 2
    /\ ProviderSiteItems[1][1] = "y"
    /\ ProviderSiteItems[2][1] = "x"
    /\ Lookup(result_rows[1], "provider") = ProviderSiteItems[2][2]
    /\ Lookup(result_rows[1], "site") = ProviderSiteItems[1][2]

\* ---- C20 ---------------------------------------------------------------
\* What flatten_record returns for the record holding the owner alone
AloneRow(owner) ==
    FlattenRecord(D(WithoutOwners(record).dict
                    \o <<<<"requestOwners", L(<<owner>>)>>>>),
                  collection_frequency, hourly_collection_plan_id).rows[1]

\* The row of the record flattened without its owners: the parent columns
ParentRow ==
    FlattenRecord(WithoutOwners(record),
                  collection_frequency, hourly_collection_plan_id).rows[1]

ParentColumns ==
    (AlwaysColumns \ {"ownerSequence", "inputRequest_exists"})
        \cup ParentBlockColumns(record.dict)

\* The state part of C20, for the rows built so far.
OwnerRowsIsolated ==
    f_pc \in {"owners", "returned"} /\ NumOwners(record) > 0 =>
        \A i \in 1..Len(result_rows) :
            LET row == result_rows[i]
                owner == Owners(record)[i]
                parent == ParentRow
                alone == AloneRow(owner)
                parentColumns == ParentColumns
                ownerColumns == OwnerBlockColumns(owner.dict)
            IN  /\ \A c \in parentColumns :
                      /\ c \in Keys(row)
                      /\ Lookup(row, c) = Lookup(parent, c)
                /\ Keys(row) \ parentColumns
                      = {"ownerSequence", "inputRequest_exists"} \cup ownerColumns
                /\ parentColumns \cap ownerColumns = {}
                /\ Keys(row) = Keys(alone)
                /\ \A c \in Keys(row) \ {"ownerSequence"} :
                      Lookup(row, c) = Lookup(alone, c)

\* C20: owner rows are isolated and parent columns are framed. In the row
\* of owner i every parent-derived column (metadata, provider/site,
\* siteHierarchy_*, requests_count, timeBox_*) holds the value taken from
\* the parent record, no owner block writing to it (the owner window uses
\* the prefix timebox_); every other column of the row comes from owner i
\* alone: apart from ownerSequence, the row is the one the record would
\* give with owner i as its only owner; and no step changes the record
\* given.
C20_OwnerIsolationAndFrame ==
    /\ []OwnerRowsIsolated
    /\ [][record' = record]_vars

C20_Witness ==
    /\ f_pc = "returned"
    /\ NumOwners(record) = 2
    /\ "timeBox" \in Keys(record.dict)
    /\ "timeBox" \in Keys(Owners(record)[1].dict)
    /\ "customerCollection" \notin Keys(Owners(record)[2].dict)
    /\ "timebox_startTime_time" \in Keys(result_rows[1])
    /\ "timebox_startTime_time" \notin Keys(result_rows[2])
    /\ "timeBox_startTime_time" \in Keys(result_rows[2])

\* ---- C21 ---------------------------------------------------------------
\* The input block of the owner of row i (1-based), as a list of pairs
InputOf(i) == Lookup(Owners(record)[i].dict, "input").dict

\* C21: input reference fallback. For every owner holding an input block,
\* the owner's row has input_filename = input.name (null when the block
\* has no name) and input_reference = input.reference when the block has
\* the key reference (whatever its value), else input.id when the block
\* has the key id, else null.
C21_InputReferenceFallback ==
    f_pc \in {"owners", "returned"} /\ NumOwners(record) > 0 =>
        \A i \in 1..Len(result_rows) :
            "input" \in Keys(Owners(record)[i].dict) =>
                LET row == result_rows[i]
                    inp == InputOf(i)
                IN  /\ "input_filename" \in Keys(row)
                    /\ "input_reference" \in Keys(row)
                    /\ Lookup(row, "input_filename")
                          = IF "name" \in Keys(inp) THEN Lookup(inp, "name")
                            ELSE Null
                    /\ Lookup(row, "input_reference")
                          = IF "reference" \in Keys(inp)
                            THEN Lookup(inp, "reference")
                            ELSE IF "id" \in Keys(inp) THEN Lookup(inp, "id")
                            ELSE Null

\* Two owners with input blocks: the first without reference (id is
\* taken), the second with neither key (null); no name in either.
C21_Witness ==
    /\ f_pc = "returned"
    /\ NumOwners(record) = 2
    /\ "input" \in Keys(Owners(record)[1].dict)
    /\ "input" \in Keys(Owners(record)[2].dict)
    /\ Keys(InputOf(1)) = {"id"}
    /\ Keys(InputOf(2)) = {}
    /\ Lookup(result_rows[1], "input_reference") = I(9)
    /\ Lookup(result_rows[1], "input_filename") = Null
    /\ Lookup(result_rows[2], "input_reference") = Null

\* ========================================================================
\* combine_all_parquet_data.py: extract_metadata_from_filename
\* ========================================================================

DotParquet == <<".", "p", "a", "r", "q", "u", "e", "t">>

\* int(text) of line 54: whether the text is accepted (ok) and its value.
\* int() strips surrounding whitespace, takes an optional sign, then
\* digits in groups separated by single underscores. (ASCII digits only.)
PyIntOfString(text) ==
    LET white == {" ", "\n"}
        lead == RunLength(text, 1, white)
        inner == {i \in 1..Len(text) : text[i] \notin white}
        last == IF inner = {} THEN 0
                ELSE CHOOSE i \in inner : \A j \in inner : j <= i
        core == SubSeq(text, lead + 1, last)
        signed == core # <<>> /\ core[1] \in {"+", "-"}
        body == IF signed THEN Tail(core) ELSE core
        wellFormed ==
            /\ body # <<>>
            /\ \A i \in 1..Len(body) : body[i] \in Digits \cup {"_"}
            /\ body[1] \in Digits
            /\ body[Len(body)] \in Digits
            /\ \A i \in 1..(Len(body) - 1) : ~(body[i] = "_" /\ body[i + 1] = "_")
        magnitude == IntOf(SelectSeq(body, LAMBDA c : c \in Digits))
    IN  IF wellFormed
        THEN [ok |-> TRUE,
              value |-> IF signed /\ core[1] = "-" THEN -magnitude ELSE magnitude]
        ELSE [ok |-> FALSE, value |-> 0]

\* Lines 44-58: basename, the .parquet suffix cut off, split('-') into
\* exactly two parts, int() of the second.
ExtractMetadataFromParquetFilename(filename) ==
    LET basename == Basename(filename)
        name_part == SubSeq(basename, 1, Len(basename) - Len(DotParquet))
        dashes == {i \in 1..Len(name_part) : name_part[i] = "-"}
    IN  IF EndsWith(basename, DotParquet) /\ Cardinality(dashes) = 1
        THEN LET d == CHOOSE i \in dashes : TRUE
                 parsed == PyIntOfString(SubSeq(name_part, d + 1, Len(name_part)))
             IN  IF parsed.ok
                 THEN <<S(Join(SubSeq(name_part, 1, d - 1))), I(parsed.value)>>
                 ELSE <<Null, Null>>
        ELSE <<Null, Null>>

\* ---- the names extract_metadata_from_filename is called on -------------
ParquetExtensions == {DotParquet, DotJson}

ParquetNames == {st \o ext : st \in Stems, ext \in ParquetExtensions}

InitParquetName ==
    /\ GroupIdle
    /\ FlatIdle
    /\ FileIdle
    /\ CombineIdle
    /\ TimeIdle
    /\ DownloadIdle
    /\ DecompressIdle
    /\ GanttIdle
    /\ LaunchIdle
    /\ n_pc = "call"
    /\ parquet_filename \in ParquetNames
    /\ n_result = <<>>

\* extract_metadata_from_filename(filename), lines 44-58
CallExtractMetadataFromParquetFilename ==
    /\ n_pc = "call"
    /\ n_result' = ExtractMetadataFromParquetFilename(parquet_filename)
    /\ n_pc' = "returned"
    /\ UNCHANGED parquet_filename
    /\ UNCHANGED notParquetName

NextParquetName == CallExtractMetadataFromParquetFilename

SpecParquetName == InitParquetName /\ [][NextParquetName]_vars

\* ---- C22 ---------------------------------------------------------------
\* The text of a name before its .parquet extension
ParquetStem == SubSeq(parquet_filename, 1, Len(parquet_filename) - Len(DotParquet))

\* <frequency-tag>-<integer>: letters, one dash, digits, each non-empty
HasTagDashDigits(stem) ==
    LET a == RunLength(stem, 1, Letters)
        b == RunLength(stem, a + 2, Digits)
    IN  /\ a >= 1
        /\ b >= 1
        /\ Len(stem) = a + 1 + b
        /\ stem[a + 1] = "-"

\* C22: the parquet extractor returns non-null metadata exactly for the
\* names <alphabetic tag>-<integer>.parquet, (None, None) for every other
\* name, and it accepts a stem exactly when the JSON extractor of
\* combine_all_data.py accepts the same stem followed by .json.
C22_ParquetFilenameConvention ==
    n_pc = "returned" =>
        /\ n_result # <<Null, Null>>
              <=> /\ EndsWith(parquet_filename, DotParquet)
                  /\ HasTagDashDigits(ParquetStem)
        /\ EndsWith(parquet_filename, DotParquet) =>
              (n_result # <<Null, Null>>
                  <=> ExtractMetadataFromFilename(ParquetStem \o DotJson)
                          # <<Null, Null>>)

\* ========================================================================
\* group_identical_rows run on its own output
\* ========================================================================

\* output_columns that leave a header holding row_count as it is.
OutputColumnsKeepingHeader(s, hdr) ==
    IF "row_count" \in Range(hdr) THEN hdr ELSE Append(hdr, "row_count")

\* output_columns: header + ["row_count"]; group_identical_parquet_rows.py
\* names the column grouped_row_count when the header holds row_count.
OutputColumns(s, hdr) ==
    IF s = "parquet" /\ "row_count" \in Range(hdr)
    THEN Append(hdr, "grouped_row_count")
    ELSE Append(hdr, "row_count")

\* The data rows pd.read_csv(dtype=str, keep_default_na=False) gives for
\* the file df_out.to_csv(output_csv, index=False) wrote: the key texts,
\* then the count as the text of an int.
ReadBack(rows) ==
    [i \in 1..Len(rows) |-> Append(rows[i].key, Join(DecimalDigits(rows[i].count)))]

\* The outputs group_identical_rows can write for a file with the header
\* hdr and the data rows given: the tally in insertion order (csv), or in
\* one of the orders the sort leaves (parquet), under output_columns.
GroupIdenticalRows(s, hdr, rows) ==
    LET tally == WholeTally(rows)
    IN  IF s = "csv"
        THEN {[columns |-> OutputColumns(s, hdr), rows |-> tally]}
        ELSE {[columns |-> OutputColumns(s, hdr),
               rows |-> [i \in 1..Len(tally) |-> tally[p[i]]]] :
                 p \in SortedOrders(tally)}

\* ---- C23 ---------------------------------------------------------------
\* The file written by the run that has completed
FirstOutput == [columns |-> OutputColumns(script, header), rows |-> output_csv]

\* What the same script can write when run on that file
SecondOutputs ==
    GroupIdenticalRows(script, FirstOutput.columns, ReadBack(FirstOutput.rows))

\* C23: grouping the output of group_identical_rows again is not a no-op.
\* The second run takes row_count as one more text column of the key: it
\* writes one more column, and every row of the first output, its count
\* as text, once, with count 1; the second output is never equal to the
\* first.
C23_RegroupingIsNotANoOp ==
    g_pc = "done" =>
        LET first == FirstOutput
        IN  \A second \in SecondOutputs :
                /\ second # first
                /\ Len(second.columns) = Len(first.columns) + 1
                /\ SubSeq(second.columns, 1, Len(first.columns)) = first.columns
                /\ Len(second.rows) = Len(first.rows)
                /\ \A i \in 1..Len(first.rows) :
                      \E j \in 1..Len(second.rows) :
                          second.rows[j] =
                              [key |-> Append(first.rows[i].key,
                                              Join(DecimalDigits(first.rows[i].count))),
                               count |-> 1]

\* A first output with a merged row and a row like it in its first column.
C23_Witness ==
    /\ g_pc = "done"
    /\ script = "parquet"
    /\ \E a, b \in 1..Len(output_csv) :
          /\ a # b
          /\ output_csv[a].key[1] = output_csv[b].key[1]
          /\ output_csv[a].count = 2
    /\ \E second \in SecondOutputs :
          /\ second.columns = <<"provider", "ownerSequence", "row_count", "grouped_row_count">>
          /\ \E j \in 1..Len(second.rows) : second.rows[j].key[3] = "2"

\* ---- C24 ---------------------------------------------------------------
\* The count a set of (tuple, row_count) pairs gives a key: 0 when absent
CountIn(pairs, key) ==
    IF \E p \in pairs : p[1] = key
    THEN (CHOOSE p \in pairs : p[1] = key)[2]
    ELSE 0

\* The key-wise integer sum of two sets of (tuple, row_count) pairs
Merge(a, b) ==
    {<<key, CountIn(a, key) + CountIn(b, key)>> :
        key \in {p[1] : p \in a \cup b}}

\* The tally, as pairs, of rows from..to of the input
TallyOfPart(from, to) == Pairs(WholeTally(SubSeq(input_rows, from, to)))

\* The rearrangements of n input rows, for every n
Rearrangements ==
    [n \in 0..MaxRows |->
        {p \in [1..n -> 1..n] : \A i, j \in 1..n : i # j => p[i] # p[j]}]

\* The tally, as pairs, of every dataset grouped as one batch
TallyPairs == [rows \in InputDatasets |-> Pairs(WholeTally(rows))]

\* C24: the tally is an order-independent, mergeable reduction. Once the
\* last chunk is tallied, the (tuple, row_count) pairs of the Counter are
\* those of the input rows taken in any order, and for every split of the
\* input into A followed by B (and into three parts) they are the key-wise
\* sum of the tallies of the parts, a sum that is commutative and
\* associative; the pairs written are the pairs of the Counter.
C24_MergeableTally ==
    /\ g_pc = "read" /\ pos = Len(input_rows) /\ input_exists =>
        LET n == Len(input_rows)
            tallied == Pairs(row_counter)
        IN  /\ \A p \in Rearrangements[n] :
                  TallyPairs[[i \in 1..n |-> input_rows[p[i]]]] = tallied
            /\ \A k \in 0..n :
                  LET a == TallyOfPart(1, k)
                      b == TallyOfPart(k + 1, n)
                  IN  /\ Merge(a, b) = tallied
                      /\ Merge(b, a) = tallied
                      /\ \A m \in k..n :
                            LET b1 == TallyOfPart(k + 1, m)
                                b2 == TallyOfPart(m + 1, n)
                            IN  /\ Merge(Merge(a, b1), b2) = tallied
                                /\ Merge(a, Merge(b1, b2)) = tallied
    /\ g_pc = "done" => Pairs(output_csv) = Pairs(row_counter)

\* A tuple met in two chunks, another one between them.
C24_Witness ==
    /\ g_pc = "done"
    /\ chunksize = 2
    /\ Len(input_rows) = 4
    /\ input_rows[1] = input_rows[3]
    /\ input_rows[1] # input_rows[2]
    /\ input_rows[2] = input_rows[4]
    /\ \A i \in 1..Len(output_csv) : output_csv[i].count = 2

\* ========================================================================
\* analyze_autoscheduler_outputs.py: the time functions, further properties
\* ========================================================================

\* ---- C25 ---------------------------------------------------------------
\* calc_duration_minutes with the arguments of the call exchanged
SwappedDuration == CalcDurationMinutes(end_time, start_time)

\* C25 as stated: for valid packed times s # e the two durations add up to
\* 1440 and differ from each other; for s = e both are 0.
C25_ArgumentSwap ==
    (DurationReturned /\ ValidPackedTime(start_time) /\ ValidPackedTime(end_time)) =>
        IF start_time = end_time
        THEN t_result = I(0) /\ SwappedDuration = I(0)
        ELSE /\ t_result.int + SwappedDuration.int = 1440
             /\ t_result # SwappedDuration

\* C25 as amended: for valid packed times s # e the two durations add up
\* to 1440, each within 1..1439, and they differ from each other exactly
\* when s and e are not 720 minutes apart (12 hours apart both are 720);
\* for s = e both are 0.
C25_SwapSumsToOneDay ==
    (DurationReturned /\ ValidPackedTime(start_time) /\ ValidPackedTime(end_time)) =>
        IF start_time = end_time
        THEN t_result = I(0) /\ SwappedDuration = I(0)
        ELSE LET apart == MinutesOf(end_time) - MinutesOf(start_time)
             IN  /\ t_result.int + SwappedDuration.int = 1440
                 /\ t_result.int \in 1..1439
                 /\ SwappedDuration.int \in 1..1439
                 /\ t_result # SwappedDuration <=> apart \notin {720, -720}
                 /\ apart \in {720, -720} => t_result = I(720)

C25_Witness ==
    /\ DurationReturned
    /\ start_time = I(0)
    /\ end_time = I(1200)
    /\ t_result = I(720)
    /\ SwappedDuration = I(720)

\* ---- C26 ---------------------------------------------------------------
DayPeriodLabels ==
    {S("Early Morning (00-06)"), S("Morning (06-12)"), S("Afternoon (12-18)"),
     S("Evening (18-24)")}

OneArgumentReturned(fn) == t_pc = "returned" /\ t_fn = fn

\* C26: categorisation tolerates what formatting rejects. For every
\* non-negative integer t that convert_time_to_hour_minute formats,
\* get_time_category(t) is a day-period label and get_hour_from_time(t) is
\* in 0..23. Not conversely: a non-negative t with t div 100 <= 23 and
\* t mod 100 > 59 is rejected by the formatter and still gets a day-period
\* label. get_hour_from_time validates nothing: it returns t div 100 for
\* every non-null t (null for null).
C26_CategorisationToleratesRejected ==
    /\ (/\ OneArgumentReturned("convert_time_to_hour_minute")
        /\ ~IsNull(time_value)
        /\ t_result # Null) =>
          (time_value.int >= 0 =>
              /\ GetTimeCategory(time_value) \in DayPeriodLabels
              /\ GetHourFromTime(time_value).int \in 0..23)
    /\ (/\ OneArgumentReturned("get_time_category")
        /\ ~IsNull(time_value)) =>
          ((/\ time_value.int >= 0
            /\ time_value.int \div 100 <= 23
            /\ time_value.int % 100 > 59) =>
              /\ t_result \in DayPeriodLabels
              /\ ConvertTimeToHourMinute(time_value) = Null)
    /\ OneArgumentReturned("get_hour_from_time") =>
          t_result = IF IsNull(time_value) THEN Null
                     ELSE I(time_value.int \div 100)

\* 1260: hour 12, minute 60, no string from the formatter but a label
C26_Witness ==
    /\ OneArgumentReturned("get_time_category")
    /\ time_value = I(1260)
    /\ t_result = S("Afternoon (12-18)")
    /\ ConvertTimeToHourMinute(time_value) = Null
    /\ GetHourFromTime(time_value) = I(12)

\* ========================================================================
\* combine_all_data.py: process_json_file, all rows of a file or none
\* ========================================================================

\* ---- C27 ---------------------------------------------------------------
\* flatten_record raises on some record of the file
SomeRecordRaises ==
    /\ ~LoadRaises(file_content)
    /\ \E i \in 1..Len(file_content.data.list) :
          ~FlattenRecord(file_content.data.list[i], file_frequency, file_plan_id).ok

\* C27: per-file atomicity of flattening. process_json_file hands out
\* either all the flattened rows of the file, with its record count, or
\* the empty list with record count 0; nothing is handed out before the
\* function ends. When flatten_record raises on a record, the rows of the
\* earlier records stay in csv_records and the function returns ([], 0),
\* the pair combine_all_data then adds no row for.
C27_PerFileAtomicity ==
    /\ p_pc \in {"start", "load", "records"} =>
          returned = [rows |-> <<>>, count |-> 0]
    /\ p_pc = "failed" => returned = [rows |-> <<>>, count |-> 0]
    /\ p_pc = "returned" =>
          /\ ~SomeRecordRaises
          /\ returned.count = Len(file_content.data.list)
          /\ returned.rows =
                Concat([i \in 1..Len(file_content.data.list) |->
                           FlattenRecord(file_content.data.list[i],
                                         file_frequency, file_plan_id).rows])
    /\ p_pc \in {"failed", "returned"} =>
          /\ SomeRecordRaises => p_pc = "failed"
          /\ returned = ProcessJsonFile(json_file_path, file_content)

\* The second record raises after the two rows of the first are collected.
C27_Witness ==
    /\ p_pc = "failed"
    /\ rec_i = 1
    /\ Len(csv_records) = 2
    /\ SomeRecordRaises
    /\ returned = [rows |-> <<>>, count |-> 0]

\* ========================================================================
\* streamlit_scheduler_explorer.py / create_scheduling_gantt.py:
\* create_gantt_chart_data, the intensity matrix
\* ========================================================================

\* time_to_decimal_hour: hours + minutes / 60.0, kept as the whole number
\* of sixtieths of an hour it stands for (60 * hours + minutes).
TimeToDecimalHour(time_val) ==
    IF IsNa(time_val) THEN Null
    ELSE LET time_int == PyInt(time_val)
             hours == time_int \div 100
             minutes == time_int % 100
         IN  I(hours * 60 + minutes)

\* row['end_decimal'] + 24 if row['end_decimal'] < row['start_decimal']
\* else row['end_decimal']: a comparison with a missing value is false.
EndDecimalAdjusted(start_decimal, end_decimal) ==
    IF IsNull(end_decimal) THEN Null
    ELSE IF IsNull(start_decimal) THEN end_decimal
    ELSE IF end_decimal.int < start_decimal.int THEN I(end_decimal.int + 24 * 60)
    ELSE end_decimal

\* int(decimal hour): the whole hours, cut towards zero
IntOfDecimal(d) == IF d.int >= 0 THEN d.int \div 60 ELSE -((-d.int) \div 60)

\* list(range(a, b))
PyRange(a, b) == [i \in 1..(IF b > a THEN b - a ELSE 0) |-> a + i - 1]

\* The hour indices the two loops of a row add row_count at, in order:
\* range(start_hour, min(end_hour + 1, 24)), then, if end_hour >= 24,
\* range(0, end_hour - 24 + 1).
HoursMarked(row) ==
    LET start_decimal == TimeToDecimalHour(row.start)
        end_decimal_adjusted == EndDecimalAdjusted(start_decimal, TimeToDecimalHour(row.end))
        start_hour == IntOfDecimal(start_decimal)
        end_hour == IntOfDecimal(end_decimal_adjusted)
    IN  PyRange(start_hour, Min(end_hour + 1, 24))
            \o (IF end_hour >= 24 THEN PyRange(0, end_hour - 24 + 1) ELSE <<>>)

\* pd.notna(row['start_decimal']) and pd.notna(row['end_decimal_adjusted'])
HasWindow(row) == ~IsNull(row.start) /\ ~IsNull(row.end)

\* intensity_matrix[provider_idx, hour] is outside the 24 columns
\* (IndexError); an index in -24..-1 counts from the end.
IndexRaises(row) ==
    \E i \in 1..Len(HoursMarked(row)) : HoursMarked(row)[i] \notin (-24)..23

\* provider_site_customers: the lines of the frame, each once (ordered by
\* the first hourly_collection_plan_id of the line; the rows enumerated
\* here come in that order).
RECURSIVE ProviderSiteCustomers(_)
ProviderSiteCustomers(rows) ==
    IF rows = <<>> THEN <<>>
    ELSE LET before == ProviderSiteCustomers(SubSeq(rows, 1, Len(rows) - 1))
             line == rows[Len(rows)].provider_site_customer
         IN  IF line \in Range(before) THEN before ELSE Append(before, line)

\* ---- the frames create_gantt_chart_data is given ------------------------
GanttTimes ==
    {Null} \cup {I(h * 100 + m) : h \in {0, 10, 23, 24}, m \in {15, 30}}

GanttRows ==
    {[provider_site_customer |-> "AA|JFK|c1", start |-> s, end |-> e, row_count |-> 1] :
        s, e \in GanttTimes}
      \cup
    {[provider_site_customer |-> "BB|LHR|N/A", start |-> s, end |-> e, row_count |-> 3] :
        s, e \in GanttTimes}

FewGanttRows ==
    { [provider_site_customer |-> "AA|JFK|c1", start |-> I(800), end |-> I(1700), row_count |-> 2],
      [provider_site_customer |-> "BB|LHR|N/A", start |-> I(2330), end |-> I(30), row_count |-> 1] }

\* No row, every row alone, and every row followed by one of a few rows.
GanttFrames ==
    {<<>>} \cup {<<r>> : r \in GanttRows}
           \cup {<<r, q>> : r \in GanttRows, q \in FewGanttRows}

InitGantt ==
    /\ GroupIdle
    /\ FlatIdle
    /\ FileIdle
    /\ CombineIdle
    /\ TimeIdle
    /\ DownloadIdle
    /\ DecompressIdle
    /\ ParquetNameIdle
    /\ LaunchIdle
    /\ k_pc = "start"
    /\ df_filtered \in GanttFrames
    /\ gantt_idx = 0
    /\ intensity_matrix = <<>>

\* if len(df_filtered) == 0: return None, None, None
ReturnNoData ==
    /\ k_pc = "start"
    /\ df_filtered = <<>>
    /\ k_pc' = "no_data"
    /\ UNCHANGED <<df_filtered, gantt_idx, intensity_matrix>>
    /\ UNCHANGED notGantt

\* The decimal columns, provider_site_customers and
\* intensity_matrix = np.zeros((len(provider_site_customers), 24))
InitialiseMatrix ==
    /\ k_pc = "start"
    /\ df_filtered # <<>>
    /\ intensity_matrix' =
          [p \in 1..Len(ProviderSiteCustomers(df_filtered)) |-> [hour \in 0..23 |-> 0]]
    /\ gantt_idx' = 0
    /\ k_pc' = "fill"
    /\ UNCHANGED df_filtered
    /\ UNCHANGED notGantt

\* One iteration of the fill loop for a row without start or end
SkipRow ==
    /\ k_pc = "fill"
    /\ gantt_idx < Len(df_filtered)
    /\ ~HasWindow(df_filtered[gantt_idx + 1])
    /\ gantt_idx' = gantt_idx + 1
    /\ UNCHANGED <<k_pc, df_filtered, intensity_matrix>>
    /\ UNCHANGED notGantt

\* One iteration of the fill loop: both inner loops of the row
FillRow ==
    /\ k_pc = "fill"
    /\ gantt_idx < Len(df_filtered)
    /\ LET row == df_filtered[gantt_idx + 1]
       IN  /\ HasWindow(row)
           /\ ~IndexRaises(row)
           /\ LET lines == ProviderSiteCustomers(df_filtered)
                  provider_idx == CHOOSE p \in 1..Len(lines) :
                                     lines[p] = row.provider_site_customer
                  marks == HoursMarked(row)
              IN  intensity_matrix' =
                     [intensity_matrix EXCEPT ![provider_idx] =
                         [hour \in 0..23 |->
                             @[hour] + row.row_count
                                 * Cardinality({i \in 1..Len(marks) : marks[i] % 24 = hour})]]
    /\ gantt_idx' = gantt_idx + 1
    /\ UNCHANGED <<k_pc, df_filtered>>
    /\ UNCHANGED notGantt

\* An inner loop reaches an index outside the matrix: IndexError
FillRowRaises ==
    /\ k_pc = "fill"
    /\ gantt_idx < Len(df_filtered)
    /\ HasWindow(df_filtered[gantt_idx + 1])
    /\ IndexRaises(df_filtered[gantt_idx + 1])
    /\ k_pc' = "raised"
    /\ UNCHANGED <<df_filtered, gantt_idx, intensity_matrix>>
    /\ UNCHANGED notGantt

\* return intensity_matrix, provider_site_customers, ...
ReturnMatrix ==
    /\ k_pc = "fill"
    /\ gantt_idx = Len(df_filtered)
    /\ k_pc' = "returned"
    /\ UNCHANGED <<df_filtered, gantt_idx, intensity_matrix>>
    /\ UNCHANGED notGantt

NextGantt ==
    \/ ReturnNoData
    \/ InitialiseMatrix
    \/ SkipRow
    \/ FillRow
    \/ FillRowRaises
    \/ ReturnMatrix

SpecGantt == InitGantt /\ [][NextGantt]_vars

\* ---- C28 ---------------------------------------------------------------
\* The row the fill loop is at
CurrentRow == df_filtered[gantt_idx + 1]

\* C28: the intensity counts each hour at most once per row. An iteration
\* of the fill loop on a row with valid start and end packed times raises
\* no IndexError, leaves every other line alone, and raises each of the 24
\* cells of the row's line by 0 or by row_count, windows that cross
\* midnight included.
C28_HourCountedAtMostOncePerRow ==
    [][(/\ k_pc = "fill"
        /\ gantt_idx < Len(df_filtered)
        /\ ValidPackedTime(CurrentRow.start)
        /\ ValidPackedTime(CurrentRow.end)) =>
          /\ k_pc' # "raised"
          /\ \A p \in 1..Len(intensity_matrix) :
                \A hour \in 0..23 :
                    intensity_matrix'[p][hour] - intensity_matrix[p][hour]
                        \in (IF ProviderSiteCustomers(df_filtered)[p]
                                    = CurrentRow.provider_site_customer
                             THEN {0, CurrentRow.row_count}
                             ELSE {0})]_vars

\* ========================================================================
\* launch_app.py / launch_parquet_dashboard.py: main, and load_data of
\* streamlit_scheduler_explorer.py
\* ========================================================================

\* check_data_file() of launch_app.py, check_data_files() of
\* launch_parquet_dashboard.py: the value returned
CheckDataFile(which, json, parquet) ==
    IF which = "launch_app" THEN json
    ELSE ~(~json /\ ~parquet)

\* install_dependencies(): launch_app.py runs pip; the other launcher
\* runs it only when an import fails
InstallDependencies(which, imports, pip) ==
    IF which = "launch_app" THEN pip
    ELSE IF imports THEN TRUE ELSE pip

InitLaunch ==
    /\ GroupIdle
    /\ FlatIdle
    /\ FileIdle
    /\ CombineIdle
    /\ TimeIdle
    /\ DownloadIdle
    /\ DecompressIdle
    /\ ParquetNameIdle
    /\ GanttIdle
    /\ l_pc = "check"
    /\ launcher \in {"launch_app", "launch_parquet_dashboard"}
    /\ json_exists \in BOOLEAN
    /\ parquet_exists \in BOOLEAN
    /\ importable \in BOOLEAN
    /\ pip_succeeds \in BOOLEAN
    /\ run_raises \in BOOLEAN
    /\ calls = <<>>
    /\ dashboard = "not_started"

\* main: if not check_data_file(): return
CheckFails ==
    /\ l_pc = "check"
    /\ ~CheckDataFile(launcher, json_exists, parquet_exists)
    /\ calls' = Append(calls, "check_data_file")
    /\ l_pc' = "returned"
    /\ UNCHANGED <<launcher, json_exists, parquet_exists, importable, pip_succeeds,
                   run_raises, dashboard>>
    /\ UNCHANGED notLaunch

CheckPasses ==
    /\ l_pc = "check"
    /\ CheckDataFile(launcher, json_exists, parquet_exists)
    /\ calls' = Append(calls, "check_data_file")
    /\ l_pc' = "install"
    /\ UNCHANGED <<launcher, json_exists, parquet_exists, importable, pip_succeeds,
                   run_raises, dashboard>>
    /\ UNCHANGED notLaunch

\* main: if not install_dependencies(): return
InstallFails ==
    /\ l_pc = "install"
    /\ ~InstallDependencies(launcher, importable, pip_succeeds)
    /\ calls' = Append(calls, "install_dependencies")
    /\ l_pc' = "returned"
    /\ UNCHANGED <<launcher, json_exists, parquet_exists, importable, pip_succeeds,
                   run_raises, dashboard>>
    /\ UNCHANGED notLaunch

\* install_dependencies() returns True; a pip run that succeeds leaves the
\* packages importable
InstallPasses ==
    /\ l_pc = "install"
    /\ InstallDependencies(launcher, importable, pip_succeeds)
    /\ calls' = Append(calls, "install_dependencies")
    /\ importable' = IF launcher = "launch_app" \/ ~importable THEN TRUE
                     ELSE importable
    /\ l_pc' = "launch"
    /\ UNCHANGED <<launcher, json_exists, parquet_exists, pip_succeeds, run_raises,
                   dashboard>>
    /\ UNCHANGED notLaunch

\* launch_streamlit(): subprocess.run([... "streamlit", "run",
\* "streamlit_scheduler_explorer.py" ...]) starts the dashboard
LaunchStreamlit ==
    /\ l_pc = "launch"
    /\ ~run_raises
    /\ calls' = Append(calls, "launch_streamlit")
    /\ dashboard' = "running"
    /\ l_pc' = "serving"
    /\ UNCHANGED <<launcher, json_exists, parquet_exists, importable, pip_succeeds,
                   run_raises>>
    /\ UNCHANGED notLaunch

\* launch_streamlit(): subprocess.run raises, "Error launching
\* application" is printed, main returns
LaunchRaises ==
    /\ l_pc = "launch"
    /\ run_raises
    /\ calls' = Append(calls, "launch_streamlit")
    /\ l_pc' = "returned"
    /\ UNCHANGED <<launcher, json_exists, parquet_exists, importable, pip_succeeds,
                   run_raises, dashboard>>
    /\ UNCHANGED notLaunch

\* load_data() of the dashboard: pd.read_csv('combined_all_data_grouped.csv')
LoadData ==
    /\ l_pc = "serving"
    /\ dashboard = "running"
    /\ json_exists
    /\ dashboard' = "loaded"
    /\ UNCHANGED <<l_pc, launcher, json_exists, parquet_exists, importable,
                   pip_succeeds, run_raises, calls>>
    /\ UNCHANGED notLaunch

\* load_data(): FileNotFoundError, st.error(...) and st.stop()
LoadDataNotFound ==
    /\ l_pc = "serving"
    /\ dashboard = "running"
    /\ ~json_exists
    /\ dashboard' = "stopped"
    /\ UNCHANGED <<l_pc, launcher, json_exists, parquet_exists, importable,
                   pip_succeeds, run_raises, calls>>
    /\ UNCHANGED notLaunch

\* Ctrl+C: subprocess.run ends with KeyboardInterrupt, main returns
StoppedByUser ==
    /\ l_pc = "serving"
    /\ l_pc' = "returned"
    /\ UNCHANGED <<launcher, json_exists, parquet_exists, importable, pip_succeeds,
                   run_raises, calls, dashboard>>
    /\ UNCHANGED notLaunch

NextLaunch ==
    \/ CheckFails
    \/ CheckPasses
    \/ InstallFails
    \/ InstallPasses
    \/ LaunchStreamlit
    \/ LaunchRaises
    \/ LoadData
    \/ LoadDataNotFound
    \/ StoppedByUser

SpecLaunch == InitLaunch /\ [][NextLaunch]_vars

\* ---- C29 ---------------------------------------------------------------
\* C29: launcher precondition ordering. Both launchers call check, then
\* install, then launch; the dashboard is never started when the check or
\* the install step failed; and whenever the dashboard has been started,
\* the file its load_data reads, combined_all_data_grouped.csv, exists.
C29_LauncherPreconditions ==
    /\ \E n \in 0..3 :
          calls = SubSeq(<<"check_data_file", "install_dependencies",
                           "launch_streamlit">>, 1, n)
    /\ dashboard # "not_started" =>
          /\ calls = <<"check_data_file", "install_dependencies", "launch_streamlit">>
          /\ CheckDataFile(launcher, json_exists, parquet_exists)
          /\ json_exists

\* ========================================================================
\* convert_time_to_hour_minute (both copies): the form of the string
\* ========================================================================

\* ---- C30 ---------------------------------------------------------------
\* cs is HH:MM, two digits of an hour in 00..23 and two of a minute in
\* 00..59
WellFormedHourMinute(cs) ==
    /\ Len(cs) = 5
    /\ cs[3] = ":"
    /\ \A i \in {1, 2, 4, 5} : cs[i] \in Digits
    /\ IntOf(SubSeq(cs, 1, 2)) \in 0..23
    /\ IntOf(SubSeq(cs, 4, 5)) \in 0..59

\* C30: the formatter output is always well-formed. Whenever
\* convert_time_to_hour_minute (either copy) returns a string for an
\* integer, negative integers included, the string is HH:MM with HH in
\* 00..23 and MM in 00..59.
C30_FormatterWellFormed ==
    (/\ t_pc = "returned"
     /\ t_fn \in {"convert_time_to_hour_minute", "convert_time_to_hour_minute_dashboard"}
     /\ ~IsNull(time_value)
     /\ t_result # Null) =>
        WellFormedHourMinute(t_result.chars)


====
